---- MODULE Spec2Model ----
(***************************************************************************)
(* A model of the x402 paywall server: the requirement catalog and matcher, *)
(* the settlement orchestrator (settle_payment), the HTTP boundary          *)
(* (handle_stream, handle_remote_stream, handle_x402_paywall) and the       *)
(* facilitator client's tab cache (FacilitatorClient::request_tab).         *)
(*                                                                          *)
(* Strings are TLA+ strings; the conversions the code applies to them       *)
(* (to_lowercase, contains, trim_start_matches, format!("{:#x}")) are       *)
(* computed character by character.                                         *)
(***************************************************************************)
EXTENDS Integers, Sequences, FiniteSets, TLC

----------------------------------------------------------------------------
(* Option::None of the source, and a JSON key that is not present.          *)
None == "<none>"

----------------------------------------------------------------------------
(* String helpers (std::str)                                                *)

UpperChars == "ABCDEFGHIJKLMNOPQRSTUVWXYZ"
LowerChars == "abcdefghijklmnopqrstuvwxyz"

(* the lower-case letter of each upper-case ASCII letter *)
LowerOf ==
    [c \in {SubSeq(UpperChars, i, i) : i \in 1..Len(UpperChars)} |->
        LET i == CHOOSE j \in 1..Len(UpperChars) : SubSeq(UpperChars, j, j) = c
        IN  SubSeq(LowerChars, i, i)]

(* char::to_lowercase on one ASCII character *)
LowerChar(c) == IF c \in DOMAIN LowerOf THEN LowerOf[c] ELSE c

RECURSIVE to_lowercase(_)
to_lowercase(s) ==
    IF s = "" THEN ""
    ELSE LowerChar(SubSeq(s, 1, 1)) \o to_lowercase(SubSeq(s, 2, Len(s)))

(* str::starts_with *)
starts_with(s, pre) ==
    /\ Len(pre) <= Len(s)
    /\ SubSeq(s, 1, Len(pre)) = pre

(* str::contains with a string pattern *)
contains(s, pat) ==
    \E i \in 1..(Len(s) + 1) :
        /\ i + Len(pat) - 1 <= Len(s)
        /\ SubSeq(s, i, i + Len(pat) - 1) = pat

(* str::trim_start_matches: removes the prefix repeatedly *)
RECURSIVE trim_start_matches(_, _)
trim_start_matches(s, pre) ==
    IF pre # "" /\ starts_with(s, pre)
    THEN trim_start_matches(SubSeq(s, Len(pre) + 1, Len(s)), pre)
    ELSE s

HexDigits == "0123456789abcdef"

RECURSIVE HexStr(_)
HexStr(n) ==
    IF n < 16 THEN SubSeq(HexDigits, n + 1, n + 1)
    ELSE HexStr(n \div 16) \o SubSeq(HexDigits, (n % 16) + 1, (n % 16) + 1)

(* format!("{:#x}", value) for a U256 *)
FormatHexPrefixed(n) == "0x" \o HexStr(n)

DecDigits == "0123456789"

RECURSIVE DecStr(_)
(* u64 / serde_json::Number to_string() for a non-negative integer *)
DecStr(n) ==
    IF n < 10 THEN SubSeq(DecDigits, n + 1, n + 1)
    ELSE DecStr(n \div 10) \o SubSeq(DecDigits, (n % 10) + 1, (n % 10) + 1)

(* str::ends_with *)
ends_with(s, suf) ==
    /\ Len(suf) <= Len(s)
    /\ SubSeq(s, Len(s) - Len(suf) + 1, Len(s)) = suf

----------------------------------------------------------------------------
(* Program constants                                                        *)

X402_VERSION == 1
ZERO_ADDRESS == "0000000000000000000000000000000000000000"
ERC20_TRANSFER_TOPIC ==
    "0xddf252ad1be2c89b69c2b068fc378daa952ba7f163c4a11628f55a4df523b3ef"
(* U256::from(100), the price handle_stream charges *)
PRICE == 100

----------------------------------------------------------------------------
(* Configuration (X402Config, read once from the environment)               *)

NativeAsset == "0x0000000000000000000000000000000000000000"
UsdcAsset   == "0x41E94Eb019C0762f9Bfcf9Fb1E58725BfB0e7582"
PayToAddr   == "0xAAaaAAaaAAaaAAaaAAaaAAaaAAaaAAaaAAaaAAaa"
OtherAddr   == "0xbbbbbbbbbbbbbbbbbbbbbbbbbbbbbbbbbbbbbbbb"

ConfigSchemes == {"4mica-credit", "4MICA-Credit", "tab-x", "exact", "x402"}
ConfigAssets  == {NativeAsset, UsdcAsset}

X402Config ==
    [enabled      : BOOLEAN,
     scheme_4mica : ConfigSchemes,
     network      : {"polygon-amoy"},
     pay_to       : {PayToAddr},
     asset        : ConfigAssets]

----------------------------------------------------------------------------
(* Requirement catalog and matcher (x402/mod.rs)                            *)

(* variant: the second entry repeats the configured scheme *)
build_accepted_payment_requirements_SameScheme(cfg, max_amount_required, tab_endpoint, resource) ==
    LET amount == FormatHexPrefixed(max_amount_required)
        entry(extra) ==
            [scheme |-> cfg.scheme_4mica, network |-> cfg.network,
             max_amount_required |-> amount, resource |-> resource, description |-> None,
             mime_type |-> None, output_schema |-> None, pay_to |-> cfg.pay_to,
             max_timeout_seconds |-> None, asset |-> cfg.asset, extra |-> extra]
    IN  << entry({<<"tabEndpoint", tab_endpoint>>}), entry({}) >>

(* variant: the exact entry is offered in the native asset and without the  *)
(* resource                                                                 *)
build_accepted_payment_requirements_NativeExact(cfg, max_amount_required, tab_endpoint, resource) ==
    LET amount == FormatHexPrefixed(max_amount_required)
        entry(scheme, res, asset, extra) ==
            [scheme |-> scheme, network |-> cfg.network,
             max_amount_required |-> amount, resource |-> res, description |-> None,
             mime_type |-> None, output_schema |-> None, pay_to |-> cfg.pay_to,
             max_timeout_seconds |-> None, asset |-> asset, extra |-> extra]
    IN  << entry(cfg.scheme_4mica, resource, cfg.asset, {<<"tabEndpoint", tab_endpoint>>}),
           entry("exact", None, NativeAsset, {}) >>

(* The two offered requirements for one price.  extra is a JSON object,     *)
(* modelled as its set of <<key, value>> members.                           *)
build_accepted_payment_requirements(cfg, max_amount_required, tab_endpoint, resource) ==
    LET amount == FormatHexPrefixed(max_amount_required)
    IN  << [scheme              |-> cfg.scheme_4mica,
            network             |-> cfg.network,
            max_amount_required |-> amount,
            resource            |-> resource,
            description         |-> None,
            mime_type           |-> None,
            output_schema       |-> None,
            pay_to              |-> cfg.pay_to,
            max_timeout_seconds |-> None,
            asset               |-> cfg.asset,
            extra               |-> {<<"tabEndpoint", tab_endpoint>>}],
           [scheme              |-> "exact",
            network             |-> cfg.network,
            max_amount_required |-> amount,
            resource            |-> resource,
            description         |-> None,
            mime_type           |-> None,
            output_schema       |-> None,
            pay_to              |-> cfg.pay_to,
            max_timeout_seconds |-> None,
            asset               |-> cfg.asset,
            extra               |-> {}] >>

(* variant: the version test is left out *)
RequirementMatches_NoVersion(envelope, req) ==
    /\ req.scheme = envelope.scheme
    /\ req.network = envelope.network

(* variant: the envelope's scheme is lower-cased before the comparison *)
RequirementMatches_CaseFolded(envelope, req) ==
    /\ envelope.x402_version = X402_VERSION
    /\ req.scheme = to_lowercase(envelope.scheme)
    /\ req.network = envelope.network

(* The predicate of the closure given to Iterator::find *)
RequirementMatches(envelope, req) ==
    /\ envelope.x402_version = X402_VERSION
    /\ req.scheme = envelope.scheme
    /\ req.network = envelope.network

(* Iterator::find returns the first element satisfying the predicate;       *)
(* ok_or_else turns absence into NoMatchingRequirements.                    *)
find_matching_payment_requirements(envelope, accepted) ==
    LET hits == {i \in 1..Len(accepted) : RequirementMatches(envelope, accepted[i])}
    IN  IF hits # {}
        THEN [ok |-> TRUE,
              value |-> accepted[CHOOSE i \in hits : \A j \in hits : i <= j]]
        ELSE [ok |-> FALSE,
              err |-> [kind    |-> "NoMatchingRequirements",
                       scheme  |-> envelope.scheme,
                       network |-> envelope.network]]


----------------------------------------------------------------------------
(* JSON values (serde_json::Value) that the code inspects                   *)

JAbsent  == [t |-> "absent"]
JStr(s)  == [t |-> "string", s |-> s]
JNum(n)  == [t |-> "number", n |-> n]
JBool    == [t |-> "bool"]

TxHashValues == {JAbsent, JStr("0xdead"), JNum(7)}
TxHashAlias  == {JAbsent, JStr("0xbeef")}

(* payload.claims: absent, or an object of which the code reads tabId and   *)
(* tab_id (the other claims are only written to the log)                    *)
ClaimsValues ==
    {JAbsent,
     [t |-> "object", tabId |-> JStr("0x1"), tab_id |-> JAbsent],
     [t |-> "object", tabId |-> JStr("zz"),  tab_id |-> JAbsent],
     [t |-> "object", tabId |-> JAbsent,     tab_id |-> JNum(5)],
     [t |-> "object", tabId |-> JBool,       tab_id |-> JStr("0x2")],
     [t |-> "object", tabId |-> JAbsent,     tab_id |-> JAbsent]}

(* payloads that carry a transaction hash, and payloads that carry claims *)
Payloads ==
    [txHash : TxHashValues, tx_hash : TxHashAlias, claims : {JAbsent}]
        \cup [txHash : {JAbsent, JStr("0xdead")}, tx_hash : {JAbsent}, claims : ClaimsValues]

EnvelopeSchemes(cfg) ==
    {cfg.scheme_4mica, "exact", "x402", "unknown-scheme", "EXACT", "4mica-credit"}
EnvelopeNetworks(cfg) == {cfg.network, "other-net"}
EnvelopeVersions == {1, 2}

(* PaymentEnvelope: the structure serde_json produces from the header's bytes *)
PaymentEnvelopes(cfg) ==
    [t            : {"envelope"},
     x402_version : EnvelopeVersions,
     scheme       : EnvelopeSchemes(cfg),
     network      : EnvelopeNetworks(cfg),
     payload      : Payloads]

NoEnvelope == [t |-> "invalid"]

(* A request header value.  "opaque" is a value HeaderValue::to_str rejects; *)
(* a "text" value stands for the header text whose base64 decoding succeeds  *)
(* or not (b64ok) and whose decoded bytes parse to `parsed` or to nothing.   *)
HAbsent == [t |-> "absent"]
HOpaque == [t |-> "opaque"]
HText(b64ok, parsed) == [t |-> "text", b64ok |-> b64ok, parsed |-> parsed]

HeaderValues(cfg) ==
    {HOpaque, HText(FALSE, NoEnvelope), HText(TRUE, NoEnvelope)}
        \cup {HText(TRUE, e) : e \in PaymentEnvelopes(cfg)}

(* The header map of a request: the two names the paywall reads.            *)
HeaderMaps(cfg) ==
    {[payment_signature |-> h, x_payment |-> HAbsent] : h \in HeaderValues(cfg) \cup {HAbsent}}
        \cup {[payment_signature |-> HAbsent, x_payment |-> h] : h \in HeaderValues(cfg)}
        \cup {[payment_signature |-> HOpaque, x_payment |-> HText(TRUE, NoEnvelope)]}

----------------------------------------------------------------------------
(* PaymentError (error.rs) and its Display text                             *)

NoError == [kind |-> "none"]

ErrBase64Decode        == [kind |-> "Base64Decode", detail |-> "Invalid padding"]
ErrJsonParse           == [kind |-> "JsonParse", detail |-> "expected value at line 1 column 1"]
ErrFacilitator(inner)  == [kind |-> "Facilitator", inner |-> inner]
ErrSettlementFailed(m) == [kind |-> "SettlementFailed", detail |-> m]
ErrUnsupportedScheme(s) == [kind |-> "UnsupportedScheme", detail |-> s]
ErrMissingTxHash       == [kind |-> "MissingTxHash"]
ErrOnchain(m)          == [kind |-> "Onchain", detail |-> m]

(* Display of FacilitatorClientError *)
FacilitatorErrorText(f) ==
    CASE f.kind = "Http" ->
            "HTTP error: " \o f.context \o ": " \o f.source
      [] f.kind = "JsonDeserialization" ->
            "Failed to deserialize JSON: " \o f.context \o ": " \o f.source
      [] f.kind = "HttpStatus" ->
            "Unexpected HTTP status " \o DecStr(f.status) \o ": " \o f.context \o ": " \o f.body
      [] f.kind = "ResponseBodyRead" ->
            "Failed to read response body as text: " \o f.context \o ": " \o f.source

(* variant: a facilitator error is displayed like a failed settlement *)
PaymentErrorText_Flat(e) ==
    CASE e.kind = "Base64Decode" -> "Failed to decode payment header: " \o e.detail
      [] e.kind = "JsonParse" -> "Failed to parse payment envelope: " \o e.detail
      [] e.kind = "Facilitator" -> "Settlement failed: " \o FacilitatorErrorText(e.inner)
      [] e.kind = "SettlementFailed" -> "Settlement failed: " \o e.detail
      [] e.kind = "NoMatchingRequirements" ->
            "No matching payment requirements found for scheme: " \o e.scheme
                \o ", network: " \o e.network
      [] e.kind = "UnsupportedScheme" -> "Unsupported payment scheme: " \o e.detail
      [] e.kind = "MissingTxHash" -> "Missing transaction hash for direct settlement"
      [] e.kind = "Onchain" -> "On-chain settlement failed: " \o e.detail

(* Display of PaymentError *)
PaymentErrorText(e) ==
    CASE e.kind = "Base64Decode" -> "Failed to decode payment header: " \o e.detail
      [] e.kind = "JsonParse" -> "Failed to parse payment envelope: " \o e.detail
      [] e.kind = "Facilitator" -> "Facilitator error: " \o FacilitatorErrorText(e.inner)
      [] e.kind = "SettlementFailed" -> "Settlement failed: " \o e.detail
      [] e.kind = "NoMatchingRequirements" ->
            "No matching payment requirements found for scheme: " \o e.scheme
                \o ", network: " \o e.network
      [] e.kind = "UnsupportedScheme" -> "Unsupported payment scheme: " \o e.detail
      [] e.kind = "MissingTxHash" -> "Missing transaction hash for direct settlement"
      [] e.kind = "Onchain" -> "On-chain settlement failed: " \o e.detail

(* Result<(), PaymentError> *)
ResNone   == [t |-> "none"]
ResOk     == [t |-> "ok"]
ResErr(e) == [t |-> "err", err |-> e]

----------------------------------------------------------------------------
(* Envelope codec and payload access                                        *)

(* variant: both decoding stages report the base64 error *)
decode_payment_header_OneKind(h) ==
    IF ~h.b64ok \/ h.parsed.t # "envelope" THEN [ok |-> FALSE, err |-> ErrBase64Decode]
    ELSE [ok |-> TRUE, value |-> h.parsed]

(* base64 decode, then serde_json::from_slice; `?` returns the first error  *)
decode_payment_header(h) ==
    IF ~h.b64ok THEN [ok |-> FALSE, err |-> ErrBase64Decode]
    ELSE IF h.parsed.t # "envelope" THEN [ok |-> FALSE, err |-> ErrJsonParse]
    ELSE [ok |-> TRUE, value |-> h.parsed]

(* payload.get("txHash").or_else(|| payload.get("tx_hash")).and_then(as_str) *)
extract_tx_hash(envelope) ==
    LET v == IF envelope.payload.txHash.t # "absent"
             THEN envelope.payload.txHash
             ELSE envelope.payload.tx_hash
    IN  IF v.t = "string" THEN v.s ELSE None

(* claims.get("tabId").or_else(|| claims.get("tab_id")), then String or     *)
(* Number to text, anything else to None                                    *)
extract_tab_id(envelope) ==
    LET claims == envelope.payload.claims
    IN  IF claims.t # "object" THEN None
        ELSE LET tab == IF claims.tabId.t # "absent" THEN claims.tabId ELSE claims.tab_id
             IN  CASE tab.t = "string" -> tab.s
                   [] tab.t = "number" -> DecStr(tab.n)
                   [] OTHER -> None


----------------------------------------------------------------------------
(* Numeric parsing and address normalisation (x402/mod.rs)                  *)

(* str::trim for the only whitespace the inputs contain, the space          *)
RECURSIVE trim(_)
trim(s) ==
    IF s # "" /\ SubSeq(s, 1, 1) = " " THEN trim(SubSeq(s, 2, Len(s)))
    ELSE IF s # "" /\ SubSeq(s, Len(s), Len(s)) = " " THEN trim(SubSeq(s, 1, Len(s) - 1))
    ELSE s

(* the value of each hexadecimal digit character *)
DigitOf ==
    [c \in {SubSeq(HexDigits, i, i) : i \in 1..Len(HexDigits)} |->
        (CHOOSE j \in 1..Len(HexDigits) : SubSeq(HexDigits, j, j) = c) - 1]

(* value of one digit, -1 when the character is no digit of the radix       *)
DigitValue(c, radix) ==
    LET lc == LowerChar(c)
    IN  IF lc \in DOMAIN DigitOf /\ DigitOf[lc] < radix THEN DigitOf[lc] ELSE -1

(* U256::from_str_radix on a non-empty digit string; -1 stands for Err.     *)
(* The digit strings drawn are short, so no value exceeds the U256 range.   *)
RECURSIVE ParseDigits(_, _, _)
ParseDigits(s, radix, acc) ==
    IF s = "" THEN acc
    ELSE LET d == DigitValue(SubSeq(s, 1, 1), radix)
         IN  IF d < 0 THEN -1
             ELSE ParseDigits(SubSeq(s, 2, Len(s)), radix, acc * radix + d)

parse_u256_value(raw) ==
    LET trimmed == trim(raw)
    IN  IF trimmed = ""
        THEN [ok |-> FALSE, err |-> ErrOnchain("empty numeric value")]
        ELSE IF starts_with(trimmed, "0x")
        THEN LET stripped == SubSeq(trimmed, 3, Len(trimmed))
                 v == IF stripped = "" THEN -1 ELSE ParseDigits(stripped, 16, 0)
             IN  IF v < 0
                 THEN [ok |-> FALSE, err |-> ErrOnchain("invalid hex value " \o trimmed)]
                 ELSE [ok |-> TRUE, value |-> v]
        ELSE LET v == ParseDigits(trimmed, 10, 0)
             IN  IF v < 0
                 THEN [ok |-> FALSE, err |-> ErrOnchain("invalid decimal value " \o trimmed)]
                 ELSE [ok |-> TRUE, value |-> v]

fmt_u256_hex(v) == "0x" \o HexStr(v)

normalize_address(addr) == to_lowercase(trim_start_matches(addr, "0x"))

topic_to_address(topic) ==
    LET clean == trim_start_matches(topic, "0x")
    IN  IF Len(clean) < 40 THEN None
        ELSE to_lowercase(SubSeq(clean, Len(clean) - 39, Len(clean)))

(* variant: a receipt without a status counts as successful *)
is_success_status_Lenient(status) ==
    IF status = None THEN TRUE
    ELSE LET p == parse_u256_value(status)
         IN  IF p.ok THEN p.value > 0 ELSE FALSE

is_success_status(status) ==
    IF status = None THEN FALSE
    ELSE LET p == parse_u256_value(status)
         IN  IF p.ok THEN p.value > 0 ELSE FALSE

----------------------------------------------------------------------------
(* JSON-RPC (x402/mod.rs rpc_call) and the chain's answers                  *)

RpcNoError == [t |-> "none"]
RpcError(code, message) == [t |-> "some", code |-> code, message |-> message]
RpcNoResult == [t |-> "none"]

(* i64 Display *)
IntStr(n) == IF n < 0 THEN "-" \o DecStr(0 - n) ELSE DecStr(n)

(* What one HTTP exchange with the node produced: did send() succeed, did   *)
(* the body deserialize as JsonRpcResponse<T>, and the two fields if so.    *)
RpcRaw(send_ok, json_ok, error, result) ==
    [send_ok |-> send_ok, json_ok |-> json_ok, http_status |-> 200,
     error |-> error, result |-> result]

(* variant: a result that is present is returned even next to an error *)
rpc_call_ResultFirst(method, raw) ==
    IF ~raw.send_ok
    THEN [ok |-> FALSE, err |-> ErrOnchain("rpc request failed: connection refused")]
    ELSE IF ~raw.json_ok
    THEN [ok |-> FALSE,
          err |-> ErrOnchain("rpc response parse failed (" \o DecStr(raw.http_status)
                                \o " OK): error decoding response body")]
    ELSE IF raw.result.t # "none"
    THEN [ok |-> TRUE, value |-> raw.result]
    ELSE IF raw.error.t = "some"
    THEN [ok |-> FALSE,
          err |-> ErrOnchain("rpc error " \o IntStr(raw.error.code) \o ": " \o raw.error.message)]
    ELSE [ok |-> FALSE, err |-> ErrOnchain("rpc " \o method \o " returned no result")]

rpc_call(method, raw) ==
    IF ~raw.send_ok
    THEN [ok |-> FALSE, err |-> ErrOnchain("rpc request failed: connection refused")]
    ELSE IF ~raw.json_ok
    THEN [ok |-> FALSE,
          err |-> ErrOnchain("rpc response parse failed (" \o DecStr(raw.http_status)
                                \o " OK): error decoding response body")]
    ELSE IF raw.error.t = "some"
    THEN [ok |-> FALSE,
          err |-> ErrOnchain("rpc error " \o IntStr(raw.error.code) \o ": " \o raw.error.message)]
    ELSE IF raw.result.t = "none"
    THEN [ok |-> FALSE, err |-> ErrOnchain("rpc " \o method \o " returned no result")]
    ELSE [ok |-> TRUE, value |-> raw.result]

PayToTopic  == "0x000000000000000000000000aaaaaaaaaaaaaaaaaaaaaaaaaaaaaaaaaaaaaaaa"
FromTopic   == "0x000000000000000000000000cccccccccccccccccccccccccccccccccccccccc"

RpcLog(address, topics, data) == [address |-> address, topics |-> topics, data |-> data]

LogTransfer(data) == RpcLog(UsdcAsset, <<ERC20_TRANSFER_TOPIC, FromTopic, PayToTopic>>, data)
LogUnrelated == RpcLog(OtherAddr, <<ERC20_TRANSFER_TOPIC, FromTopic, PayToTopic>>, "0x64")
LogShort     == RpcLog(UsdcAsset, <<ERC20_TRANSFER_TOPIC>>, "0x64")

ReceiptLogs ==
    {<< >>,
     <<LogTransfer("0x64")>>,
     <<LogTransfer("0x32")>>,
     <<LogUnrelated, LogTransfer("0x64")>>,
     <<LogShort, LogTransfer("0xc8")>>,
     <<LogTransfer("0x32"), LogTransfer("0x64")>>,
     <<LogTransfer("zz"), LogTransfer("0x64")>>,
     <<LogUnrelated>>}

(* receipts: not mined; mined with each status; mined and successful with  *)
(* each list of logs                                                        *)
RpcReceipts ==
    [t : {"receipt"}, status : {None, "0x1"}, block_number : {None}, logs : {<< >>}]
        \cup [t : {"receipt"}, status : {None, "0x0", "0", "1", "0x2", "zz"},
              block_number : {"0x10"},
              logs : {<< >>, <<LogTransfer("0x64")>>}]
        \cup [t : {"receipt"}, status : {"0x1"}, block_number : {"0x10"}, logs : ReceiptLogs]

RpcTransactions ==
    [t     : {"tx"},
     to    : {None, PayToAddr, "aaaaaaaaaaaaaaaaaaaaaaaaaaaaaaaaaaaaaaaa",
              "0XAAAAAAAAAAAAAAAAAAAAAAAAAAAAAAAAAAAAAAAA", OtherAddr},
     value : {None, "0x64", "0x32", "100", "0xc8", "zz"}]

RpcFailures ==
    {RpcRaw(FALSE, FALSE, RpcNoError, RpcNoResult),
     RpcRaw(TRUE, FALSE, RpcNoError, RpcNoResult),
     RpcRaw(TRUE, TRUE, RpcError(-32000, "header not found"), RpcNoResult),
     RpcRaw(TRUE, TRUE, RpcNoError, RpcNoResult)}

ReceiptAnswers ==
    RpcFailures
        \cup {RpcRaw(TRUE, TRUE, RpcNoError, r) : r \in RpcReceipts}
        \cup {RpcRaw(TRUE, TRUE, RpcError(3, "execution reverted"), r) :
                r \in {x \in RpcReceipts : x.logs = << >> /\ x.status = "0x1"}}

TransactionAnswers ==
    RpcFailures \cup {RpcRaw(TRUE, TRUE, RpcNoError, r) : r \in RpcTransactions}

(* validate_erc20_transfer of x402/mod.rs: the first log whose address,     *)
(* topic 0 and topic 2 match is taken; its data decides.                    *)
Erc20LogMatches(log, asset, pay_to) ==
    /\ normalize_address(log.address) = asset
    /\ Len(log.topics) >= 1
    /\ to_lowercase(log.topics[1]) = ERC20_TRANSFER_TOPIC
    /\ Len(log.topics) >= 3
    /\ topic_to_address(log.topics[3]) # None
    /\ topic_to_address(log.topics[3]) = pay_to

validate_erc20_transfer(receipt, asset, pay_to, required_amount) ==
    LET hits == {i \in 1..Len(receipt.logs) : Erc20LogMatches(receipt.logs[i], asset, pay_to)}
    IN  IF hits = {}
        THEN ResErr(ErrOnchain("no transfer to " \o pay_to \o " found for asset " \o asset))
        ELSE LET log == receipt.logs[CHOOSE i \in hits : \A j \in hits : i <= j]
                 amount == parse_u256_value(log.data)
             IN  IF ~amount.ok THEN ResErr(amount.err)
                 ELSE IF amount.value < required_amount
                 THEN ResErr(ErrOnchain("transfer amount " \o DecStr(amount.value)
                                          \o " below required " \o DecStr(required_amount)))
                 ELSE ResOk

(* variant: a value equal to the required amount is rejected as well *)
validate_native_transfer_Strict(raw, pay_to, required_amount) ==
    LET tx == rpc_call("eth_getTransactionByHash", raw)
    IN  IF ~tx.ok THEN ResErr(tx.err)
        ELSE IF tx.value.to = None
        THEN ResErr(ErrOnchain("transaction missing recipient"))
        ELSE LET to_addr == normalize_address(tx.value.to)
             IN  IF to_addr # pay_to
                 THEN ResErr(ErrOnchain("transaction recipient mismatch: expected "
                                          \o pay_to \o ", got " \o to_addr))
                 ELSE LET value == IF tx.value.value = None THEN "0x0" ELSE tx.value.value
                          amount == parse_u256_value(value)
                      IN  IF ~amount.ok THEN ResErr(amount.err)
                          ELSE IF amount.value <= required_amount
                          THEN ResErr(ErrOnchain("transaction value " \o DecStr(amount.value)
                                                   \o " below required "
                                                   \o DecStr(required_amount)))
                          ELSE ResOk

(* validate_native_transfer, from the answer to eth_getTransactionByHash on *)
validate_native_transfer(raw, pay_to, required_amount) ==
    LET tx == rpc_call("eth_getTransactionByHash", raw)
    IN  IF ~tx.ok THEN ResErr(tx.err)
        ELSE IF tx.value.to = None
        THEN ResErr(ErrOnchain("transaction missing recipient"))
        ELSE LET to_addr == normalize_address(tx.value.to)
             IN  IF to_addr # pay_to
                 THEN ResErr(ErrOnchain("transaction recipient mismatch: expected "
                                          \o pay_to \o ", got " \o to_addr))
                 ELSE LET value == IF tx.value.value = None THEN "0x0" ELSE tx.value.value
                          amount == parse_u256_value(value)
                      IN  IF ~amount.ok THEN ResErr(amount.err)
                          ELSE IF amount.value < required_amount
                          THEN ResErr(ErrOnchain("transaction value " \o DecStr(amount.value)
                                                   \o " below required "
                                                   \o DecStr(required_amount)))
                          ELSE ResOk


----------------------------------------------------------------------------
(* Facilitator HTTP exchange (FacilitatorClient::post_json)                 *)

SettleBody(success, error, certificate) ==
    [t |-> "settle", success |-> success, error |-> error, certificate |-> certificate,
     text |-> "{settle response}"]
GarbageBody == [t |-> "garbage", text |-> "oops"]

SettleBodies ==
    {SettleBody(su, er, ce) : su \in BOOLEAN, er \in {None, "insufficient balance"},
                              ce \in {None, "certificate"}}

(* What one HTTP exchange produced: did send() succeed, the status, whether *)
(* the body could be read as text, and the body.                            *)
HttpRaw(send_ok, status, body_ok, body) ==
    [send_ok |-> send_ok, status |-> status, body_ok |-> body_ok, body |-> body]

SettleAnswers ==
    {HttpRaw(FALSE, 0, FALSE, GarbageBody)}
        \cup {HttpRaw(TRUE, 200, TRUE, b) : b \in SettleBodies \cup {GarbageBody}}
        \cup {HttpRaw(TRUE, 200, FALSE, SettleBody(TRUE, None, None)),
              HttpRaw(TRUE, 201, TRUE, SettleBody(TRUE, None, None)),
              HttpRaw(TRUE, 402, TRUE, GarbageBody),
              HttpRaw(TRUE, 500, TRUE, GarbageBody),
              HttpRaw(TRUE, 500, FALSE, GarbageBody)}

(* variant: every 2xx status is taken as success *)
post_json_Any2xx(context, expect, raw) ==
    IF ~raw.send_ok
    THEN [ok |-> FALSE,
          err |-> [kind |-> "Http", context |-> context, source |-> "error sending request"]]
    ELSE IF raw.status >= 200 /\ raw.status < 300
    THEN IF raw.body_ok /\ raw.body.t = expect
         THEN [ok |-> TRUE, value |-> raw.body]
         ELSE [ok |-> FALSE,
               err |-> [kind |-> "JsonDeserialization", context |-> context,
                        source |-> "error decoding response body"]]
    ELSE IF ~raw.body_ok
    THEN [ok |-> FALSE,
          err |-> [kind |-> "ResponseBodyRead", context |-> context,
                   source |-> "error decoding response body"]]
    ELSE [ok |-> FALSE,
          err |-> [kind |-> "HttpStatus", context |-> context, status |-> raw.status,
                   body |-> raw.body.text]]

(* post_json: `expect` is the type R the 200 body must deserialize to; a    *)
(* 200 body that cannot be read fails in json::<R>() like one that does not *)
(* deserialize                                                              *)
post_json(context, expect, raw) ==
    IF ~raw.send_ok
    THEN [ok |-> FALSE,
          err |-> [kind |-> "Http", context |-> context, source |-> "error sending request"]]
    ELSE IF raw.status = 200
    THEN IF raw.body_ok /\ raw.body.t = expect
         THEN [ok |-> TRUE, value |-> raw.body]
         ELSE [ok |-> FALSE,
               err |-> [kind |-> "JsonDeserialization", context |-> context,
                        source |-> "error decoding response body"]]
    ELSE IF ~raw.body_ok
    THEN [ok |-> FALSE,
          err |-> [kind |-> "ResponseBodyRead", context |-> context,
                   source |-> "error decoding response body"]]
    ELSE [ok |-> FALSE,
          err |-> [kind |-> "HttpStatus", context |-> context, status |-> raw.status,
                   body |-> raw.body.text]]

----------------------------------------------------------------------------
(* State of the request being served                                        *)

VARIABLES
    config,     \* X402Config, loaded at startup
    pc,         \* where the handler of the current request is suspended
    rq,         \* the handler's local variables
    calls,      \* outbound calls made while serving the current request
    streamed,   \* the handler has reached stream_file / stream_remote_file
    response,   \* the Response the handler returned
    ledger      \* history: one earlier on-chain settlement attempt and its outcome

NoRequirement == [t |-> "none"]
NoReceipt     == [t |-> "none"]
NoResponse    == [status |-> 0, accepts |-> << >>, error |-> None, body |-> ""]

Response(status, body) == [status |-> status, accepts |-> << >>, error |-> None, body |-> body]

(* build_payment_required_response: 402, the offered requirements, the error *)
build_payment_required_response(payment_requirements, error) ==
    [status |-> 402, accepts |-> payment_requirements, error |-> error, body |-> ""]

(* history of an earlier attempt: nothing recorded *)
NoAttempt == [t |-> "none"]

(* history of the answers the outbound calls of one request received *)
NoAnswer == [t |-> "none"]
Answer(raw) == [t |-> "some", raw |-> raw]

Locals0 ==
    [handler         |-> "",
     target          |-> "",
     is_playlist     |-> FALSE,
     file_verified   |-> FALSE,
     accepted        |-> << >>,
     payment_header  |-> HAbsent,
     envelope        |-> NoEnvelope,
     selected        |-> NoRequirement,
     tx_hash         |-> None,
     receipt         |-> NoReceipt,
     settle_started  |-> FALSE,
     settle_result   |-> ResNone,
     paywall_result  |-> ResNone,
     settle_answer   |-> NoAnswer,   \* history: what POST /settle answered
     receipt_answer  |-> NoAnswer,   \* history: what eth_getTransactionReceipt answered
     tx_answer       |-> NoAnswer,   \* history: what eth_getTransactionByHash answered
     snapshot        |-> None]       \* history: how log_tab_snapshot went

FacilitatorCall(op, header, requirement) ==
    [to |-> "facilitator", op |-> op, x402_version |-> X402_VERSION,
     payment_header |-> header, payment_requirements |-> requirement]
RpcCall(method, param) == [to |-> "rpc", op |-> method, param |-> param]
ProviderCall(tab_id) == [to |-> "provider", op |-> "log_tab_snapshot", param |-> tab_id]

AdvertisedUrl == "http://localhost:3000"

(* headers.get("payment-signature").or_else(get("PAYMENT-SIGNATURE"))       *)
(*        .or_else(get("x-payment")); header names compare without case     *)
GetPaymentHeader(headers) ==
    IF headers.payment_signature.t # "absent" THEN headers.payment_signature
    ELSE headers.x_payment


(* State of the facilitator client's tab cache and of the request_tab calls *)
VARIABLES
    clock,      \* Utc::now(), in seconds
    tab_cache,  \* HashMap<TabKey, CachedTab>
    lock,       \* the RwLock around tab_cache: its readers and its writer
    tpc,        \* where each request_tab call is
    tl,         \* each request_tab call's local variables
    posts,      \* the calls whose POST /tabs request the facilitator has received
    hist,       \* history: per key, what the last call to take the write lock inserts
    issued_at   \* history: per key, the `now` of the call that inserted the entry

payVars == <<config, pc, rq, calls, streamed, response, ledger>>
tabVars == <<clock, tab_cache, lock, tpc, tl, posts, hist, issued_at>>
vars    == <<config, pc, rq, calls, streamed, response, ledger,
             clock, tab_cache, lock, tpc, tl, posts, hist, issued_at>>

----------------------------------------------------------------------------
(* settle_payment (x402/mod.rs), up to its first outbound call              *)

(* variant: the exact scheme is sent to the facilitator as well *)
IsCreditTabScheme_OrExact(scheme) == contains(scheme, "4mica") \/ scheme = "exact"

(* `scheme` is envelope.scheme.to_lowercase() *)
IsCreditTabScheme(scheme) == contains(scheme, "4mica")
IsOnchainScheme(scheme) == scheme = "exact" \/ scheme = "x402"

(* variant: settle_payment requests the receipt before it returns *)
SettleReturn_WithCall(envelope, selected, result) ==
    [pc |-> "return", result |-> result, envelope |-> envelope, selected |-> selected,
     tx_hash |-> None, calls |-> <<RpcCall("eth_getTransactionReceipt", None)>>]

SettleReturn(envelope, selected, result) ==
    [pc |-> "return", result |-> result, envelope |-> envelope, selected |-> selected,
     tx_hash |-> None, calls |-> << >>]

(* variant: eth_getTransactionReceipt is requested a second time *)
settle_onchain_start_Twice(envelope, selected) ==
    LET tx_hash == extract_tx_hash(envelope)
    IN  IF tx_hash = None
        THEN SettleReturn(envelope, selected, ResErr(ErrMissingTxHash))
        ELSE [pc |-> "rpc_receipt", result |-> ResNone, envelope |-> envelope,
              selected |-> selected, tx_hash |-> tx_hash,
              calls |-> <<RpcCall("eth_getTransactionReceipt", tx_hash),
                          RpcCall("eth_getTransactionReceipt", tx_hash)>>]

(* variant: a hash that settled a payment before is refused *)
settle_onchain_start_Consumed(envelope, selected) ==
    LET tx_hash == extract_tx_hash(envelope)
    IN  IF tx_hash = None
        THEN SettleReturn(envelope, selected, ResErr(ErrMissingTxHash))
        ELSE IF ledger # NoAttempt /\ ledger.tx_hash = tx_hash /\ ledger.outcome.t = "ok"
        THEN SettleReturn(envelope, selected, ResErr(ErrOnchain("transaction already used")))
        ELSE [pc |-> "rpc_receipt", result |-> ResNone, envelope |-> envelope,
              selected |-> selected, tx_hash |-> tx_hash,
              calls |-> <<RpcCall("eth_getTransactionReceipt", tx_hash)>>]

(* settle_onchain up to eth_getTransactionReceipt *)
settle_onchain_start(envelope, selected) ==
    LET tx_hash == extract_tx_hash(envelope)
    IN  IF tx_hash = None
        THEN SettleReturn(envelope, selected, ResErr(ErrMissingTxHash))
        ELSE [pc |-> "rpc_receipt", result |-> ResNone, envelope |-> envelope,
              selected |-> selected, tx_hash |-> tx_hash,
              calls |-> <<RpcCall("eth_getTransactionReceipt", tx_hash)>>]

settle_payment_start(payment_header, accepted, cfg) ==
    LET dec == decode_payment_header(payment_header)
    IN  IF ~dec.ok THEN SettleReturn(NoEnvelope, NoRequirement, ResErr(dec.err))
        ELSE
        LET envelope == dec.value
            m == find_matching_payment_requirements(envelope, accepted)
        IN  IF ~m.ok THEN SettleReturn(envelope, NoRequirement, ResErr(m.err))
            ELSE
            LET scheme == to_lowercase(envelope.scheme)
            IN  IF IsCreditTabScheme(scheme)
                THEN [pc |-> "facilitator_settle", result |-> ResNone,
                      envelope |-> envelope, selected |-> m.value, tx_hash |-> None,
                      calls |-> <<FacilitatorCall("POST /settle", payment_header, m.value)>>]
                ELSE IF IsOnchainScheme(scheme)
                THEN settle_onchain_start(envelope, m.value)
                ELSE SettleReturn(envelope, m.value,
                                  ResErr(ErrUnsupportedScheme(envelope.scheme)))

----------------------------------------------------------------------------
(* The handler's ways of leaving a step                                     *)

(* the handler returns `resp` *)
Return(lo, cs, resp) ==
    /\ rq' = lo
    /\ calls' = cs
    /\ pc' = "responded"
    /\ response' = resp
    /\ UNCHANGED streamed

(* the handler is suspended on an outbound call *)
Await(lo, cs, where) ==
    /\ rq' = lo
    /\ calls' = cs
    /\ pc' = where
    /\ UNCHANGED <<response, streamed>>

(* the handler calls stream_file / stream_remote_file *)
StartStream(lo, cs) ==
    /\ rq' = lo
    /\ calls' = cs
    /\ pc' = "stream"
    /\ streamed' = TRUE
    /\ UNCHANGED response

(* variant: a facilitator that cannot be reached lets the request through  *)
PaywallReturn_FailOpen(lo, cs, result) ==
    IF result.t = "ok" \/ (result.t = "err" /\ result.err.kind = "Facilitator")
    THEN StartStream([lo EXCEPT !.settle_result = result, !.paywall_result = [t |-> "ok"]], cs)
    ELSE Return([lo EXCEPT !.settle_result = result, !.paywall_result = [t |-> "err"]], cs,
                build_payment_required_response(
                    lo.accepted,
                    "Payment settlement failed: " \o PaymentErrorText(result.err)))

(* settle_payment has returned `result` to handle_x402_paywall, which       *)
(* returns to the handler                                                   *)
PaywallReturn(lo, cs, result) ==
    IF result.t = "ok"
    THEN StartStream([lo EXCEPT !.settle_result = result, !.paywall_result = [t |-> "ok"]], cs)
    ELSE Return([lo EXCEPT !.settle_result = result, !.paywall_result = [t |-> "err"]], cs,
                build_payment_required_response(
                    lo.accepted,
                    "Payment settlement failed: " \o PaymentErrorText(result.err)))

handle_x402_paywall(lo, resource, tab_join_ok, headers) ==
    IF ~tab_join_ok
    THEN Return([lo EXCEPT !.paywall_result = [t |-> "err"]], calls,
                Response(500, "Failed to construct tab endpoint"))
    ELSE
    LET payment_requirements ==
            build_accepted_payment_requirements(config, PRICE, AdvertisedUrl \o "/tab", resource)
        lo1 == [lo EXCEPT !.accepted = payment_requirements]
        payment_header == GetPaymentHeader(headers)
    IN  IF payment_header.t = "absent"
        THEN Return([lo1 EXCEPT !.paywall_result = [t |-> "err"]], calls,
                    build_payment_required_response(payment_requirements, None))
        ELSE IF payment_header.t = "opaque"
        THEN Return([lo1 EXCEPT !.payment_header = payment_header,
                                !.paywall_result = [t |-> "err"]], calls,
                    build_payment_required_response(payment_requirements,
                                                    "Invalid payment header"))
        ELSE
        LET st == settle_payment_start(payment_header, payment_requirements, config)
            lo2 == [lo1 EXCEPT !.payment_header = payment_header,
                               !.settle_started = TRUE,
                               !.envelope = st.envelope,
                               !.selected = st.selected,
                               !.tx_hash = st.tx_hash]
        IN  IF st.pc = "return"
            THEN PaywallReturn(lo2, calls \o st.calls, st.result)
            ELSE Await(lo2, calls \o st.calls, st.pc)


----------------------------------------------------------------------------
(* HTTP handlers (http/router.rs) and the continuation of settle_payment    *)
(* after each outbound call                                                 *)

(* the percent-decoded {filename} segment of the request path *)
Filenames == {"seg0.ts", "index.m3u8", "missing.ts", "subdir", "/etc/hosts.ts",
              "../secret.ts"}
RemoteUrls == {"http://cdn.example/seg0.ts", "http://cdn.example/index.m3u8"}

(* Path::components: the path split at "/", a leading "/" being the root    *)
RECURSIVE Components(_, _, _)
Components(s, cur, acc) ==
    IF s = ""
    THEN IF cur = "" THEN acc ELSE Append(acc, cur)
    ELSE LET c == SubSeq(s, 1, 1)
             rest == SubSeq(s, 2, Len(s))
         IN  IF c # "/" THEN Components(rest, cur \o c, acc)
             ELSE IF cur = "" /\ acc = << >> THEN Components(rest, "", <<"/">>)
             ELSE IF cur = "" THEN Components(rest, "", acc)
             ELSE Components(rest, "", Append(acc, cur))

(* the file system's reading of a path: ".." steps to the parent *)
RECURSIVE Resolve(_, _)
Resolve(path, acc) ==
    IF path = << >> THEN acc
    ELSE IF Head(path) = ".." /\ acc # << >> /\ acc[Len(acc)] \notin {"/", "."}
    THEN Resolve(Tail(path), SubSeq(acc, 1, Len(acc) - 1))
    ELSE Resolve(Tail(path), Append(acc, Head(path)))

(* what is on disk, by resolved path *)
Disk ==
    [files |-> {<<".", "data", "hls", "seg0.ts">>, <<".", "data", "hls", "index.m3u8">>,
                <<".", "data", "secret.ts">>, <<"/", "etc", "hosts.ts">>},
     dirs  |-> {<<".", "data", "hls", "subdir">>}]

(* verify_file (io.rs): Path::join replaces the base by an absolute         *)
(* filename; exists() and is_file() ask the file system; Path::starts_with  *)
(* compares the components as written                                       *)
verify_file(base_directory, filename) ==
    LET base == Components(base_directory, "", << >>)
        name == Components(filename, "", << >>)
        file_path == IF name # << >> /\ name[1] = "/" THEN name ELSE base \o name
        on_disk == Resolve(file_path, << >>)
    IN  IF on_disk \notin Disk.files \cup Disk.dirs THEN "NotFound"
        ELSE IF on_disk \notin Disk.files THEN "NotAFile"
        ELSE IF ~(/\ Len(file_path) >= Len(base)
                  /\ SubSeq(file_path, 1, Len(base)) = base) THEN "AccessDenied"
        ELSE "ok"

(* FileStreamError Display, for the outcomes of verify_file *)
FileErrorText(e) ==
    CASE e = "NotFound" -> "File not found: ./data/hls/file"
      [] e = "NotAFile" -> "Path is not a file: ./data/hls/file"
      [] e = "AccessDenied" -> "Access denied: path is outside allowed directory"

(* handle_stream for a request whose file name and headers are drawn from  *)
(* the given sets                                                           *)
handle_stream_of(filenames, header_maps) ==
    /\ pc = "idle"
    /\ \E filename \in filenames,
          resource_join_ok \in BOOLEAN, tab_join_ok \in BOOLEAN,
          headers \in header_maps :
       LET verify == verify_file("./data/hls", filename)
           lo == [Locals0 EXCEPT !.handler = "handle_stream",
                                 !.target = filename,
                                 !.is_playlist = ends_with(filename, ".m3u8"),
                                 !.file_verified = (verify = "ok")]
           resource == AdvertisedUrl \o "/stream/" \o filename
       IN  IF verify # "ok"
           THEN Return(lo, calls, Response(400, FileErrorText(verify)))
           ELSE IF ~resource_join_ok
           THEN Return(lo, calls, Response(500, "Failed to construct resource URL"))
           ELSE IF config.enabled /\ ~lo.is_playlist
           THEN handle_x402_paywall(lo, resource, tab_join_ok, headers)
           ELSE StartStream(lo, calls)
    /\ UNCHANGED <<config, ledger, tabVars>>

(* GET /stream/{filename} *)
handle_stream == handle_stream_of(Filenames, HeaderMaps(config))

(* GET /stream/remote?url=... *)
handle_remote_stream ==
    /\ pc = "idle"
    /\ \E url \in RemoteUrls, resource_join_ok \in BOOLEAN, tab_join_ok \in BOOLEAN,
          headers \in HeaderMaps(config) :
       LET lo == [Locals0 EXCEPT !.handler = "handle_remote_stream",
                                 !.target = url,
                                 !.is_playlist = ends_with(url, ".m3u8")]
           resource == AdvertisedUrl \o "/stream/remote?url=" \o url
       IN  IF ~resource_join_ok
           THEN Return(lo, calls, Response(500, "Failed to construct resource URL"))
           ELSE IF config.enabled /\ ~lo.is_playlist
           THEN handle_x402_paywall(lo, resource, tab_join_ok, headers)
           ELSE StartStream(lo, calls)
    /\ UNCHANGED <<config, ledger, tabVars>>

(* log_tab_snapshot: build_fourmica_client gave None, or some of the four    *)
(* provider queries returned Err, or all four returned Ok                   *)
SnapshotOutcomes == {"no client", "queries failed", "queries ok"}

(* variant: Option::unwrap_or with a placeholder text *)
unwrap_or_default_Placeholder(opt) == IF opt = None THEN "settlement failed" ELSE opt

(* Option<String>::unwrap_or_default *)
unwrap_or_default(opt) == IF opt = None THEN "" ELSE opt

(* variant: a failed provider query fails the settlement *)
settle_credit_finish_Gating(outcome) ==
    IF outcome = "queries ok" THEN ResOk
    ELSE ResErr(ErrSettlementFailed("tab snapshot failed"))

(* the tail of the credit-tab branch: log_tab_snapshot(...).await returns   *)
(* unit, and settle_payment falls through to Ok(())                         *)
settle_credit_finish(outcome) == ResOk

(* variant: the status is looked at before the block number *)
receipt_gate_StatusFirst(receipt) ==
    IF ~is_success_status(receipt.status)
    THEN ResErr(ErrOnchain("transaction reverted"))
    ELSE IF receipt.block_number = None
    THEN ResErr(ErrOnchain("transaction not yet finalized on-chain"))
    ELSE ResOk

(* settle_onchain: the two gates on the receipt *)
receipt_gate(receipt) ==
    IF receipt.block_number = None
    THEN ResErr(ErrOnchain("transaction not yet finalized on-chain"))
    ELSE IF ~is_success_status(receipt.status)
    THEN ResErr(ErrOnchain("transaction reverted"))
    ELSE ResOk

(* facilitator.settle(...).await returns; settle_payment goes on to the     *)
(* response check and the tab snapshot                                      *)
FacilitatorSettleReturns ==
    /\ pc = "facilitator_settle"
    /\ \E raw \in SettleAnswers :
       LET r == post_json("POST /settle", "settle", raw)
           lo == [rq EXCEPT !.settle_answer = Answer(raw)]
       IN  IF ~r.ok
           THEN PaywallReturn(lo, calls, ResErr(ErrFacilitator(r.err)))
           ELSE IF ~r.value.success
           THEN PaywallReturn(lo, calls,
                    ResErr(ErrSettlementFailed(unwrap_or_default(r.value.error))))
           ELSE LET tab_id_raw == extract_tab_id(rq.envelope)
                IN  IF tab_id_raw # None /\ parse_u256_value(tab_id_raw).ok
                    THEN Await(lo,
                               Append(calls, ProviderCall(
                                   fmt_u256_hex(parse_u256_value(tab_id_raw).value))),
                               "tab_snapshot")
                    ELSE PaywallReturn(lo, calls, ResOk)
    /\ UNCHANGED <<config, ledger, tabVars>>

(* log_tab_snapshot(...).await returns, whatever the provider answered *)
TabSnapshotReturns ==
    /\ pc = "tab_snapshot"
    /\ \E outcome \in SnapshotOutcomes :
       PaywallReturn([rq EXCEPT !.snapshot = outcome], calls, settle_credit_finish(outcome))
    /\ UNCHANGED <<config, ledger, tabVars>>

(* rpc_call("eth_getTransactionReceipt").await returns inside settle_onchain *)
RpcReceiptReturns ==
    /\ pc = "rpc_receipt"
    /\ \E raw \in ReceiptAnswers :
       LET r == rpc_call("eth_getTransactionReceipt", raw)
           lo0 == [rq EXCEPT !.receipt_answer = Answer(raw)]
       IN  IF ~r.ok THEN PaywallReturn(lo0, calls, ResErr(r.err))
           ELSE
           LET receipt == r.value
               lo == [lo0 EXCEPT !.receipt = receipt]
           IN  IF receipt_gate(receipt).t = "err"
               THEN PaywallReturn(lo, calls, receipt_gate(receipt))
               ELSE
               LET required_amount == parse_u256_value(rq.selected.max_amount_required)
                   pay_to == normalize_address(rq.selected.pay_to)
                   asset == normalize_address(rq.selected.asset)
               IN  IF ~required_amount.ok
                   THEN PaywallReturn(lo, calls, ResErr(required_amount.err))
                   ELSE IF asset = ZERO_ADDRESS
                   THEN Await(lo,
                              Append(calls, RpcCall("eth_getTransactionByHash", rq.tx_hash)),
                              "rpc_tx")
                   ELSE PaywallReturn(lo, calls,
                            validate_erc20_transfer(receipt, asset, pay_to,
                                                    required_amount.value))
    /\ UNCHANGED <<config, ledger, tabVars>>

(* rpc_call("eth_getTransactionByHash").await returns inside                *)
(* validate_native_transfer                                                 *)
RpcTransactionReturns ==
    /\ pc = "rpc_tx"
    /\ \E raw \in TransactionAnswers :
       PaywallReturn([rq EXCEPT !.tx_answer = Answer(raw)], calls,
           validate_native_transfer(raw,
               normalize_address(rq.selected.pay_to),
               parse_u256_value(rq.selected.max_amount_required).value))
    /\ UNCHANGED <<config, ledger, tabVars>>

(* stream_file / stream_remote_file returns *)
StreamReturns ==
    /\ pc = "stream"
    /\ pc' = "responded"
    /\ \E ok \in BOOLEAN :
       response' = IF ok THEN Response(200, rq.target)
                   ELSE IF rq.handler = "handle_stream"
                   THEN Response(500, "Failed to read file")
                   ELSE Response(500, "Failed to fetch remote file")
    /\ UNCHANGED <<config, rq, calls, streamed, ledger, tabVars>>

(* the response is sent; the server waits for the next request *)
Respond ==
    /\ pc = "responded"
    /\ pc' = "idle"
    /\ rq' = Locals0
    /\ calls' = << >>
    /\ streamed' = FALSE
    /\ response' = NoResponse
    /\ UNCHANGED <<config, ledger, tabVars>>


----------------------------------------------------------------------------
(* Tab cache (FacilitatorClient::request_tab, x402/facilitator.rs)          *)

(* number of request_tab calls in one run, numbered in the order they start *)
NumCalls == 2
(* number of half-hour steps the clock advances in one run *)
MaxTicks == 2

Calls == 1..NumCalls

(* chrono::Duration::hours(1), in seconds *)
CACHE_CAP_SECS == 3600
(* i64::MAX and the largest timestamp chrono represents, both narrowed to   *)
(* 32-bit integers; their order is that of the real values                  *)
I64_MAX == 2147480000
CHRONO_MAX_SECS == 2000000000

ClockStart == 100000
TickStep == 1800

(* FacilitatorTabRequestParams: two payers whose addresses differ in case   *)
TabRequests ==
    [user_address      : {"0xu1", "0xU1"},
     recipient_address : {PayToAddr},
     erc20_token       : {UsdcAsset},
     ttl_seconds       : {86400}]

(* the payers are interchangeable: the first call's is fixed *)
FirstTabRequest == CHOOSE r \in TabRequests : r.user_address = "0xu1"

TabKey(request) ==
    [user_address      |-> request.user_address,
     recipient_address |-> request.recipient_address,
     asset_address     |-> request.erc20_token]

TabKeys == {TabKey(r) : r \in TabRequests}

NoTab == [tab_id |-> None]

(* FacilitatorTabResponse *)
TabResponse(tab_id, request, start_timestamp, ttl_seconds) ==
    [tab_id            |-> tab_id,
     user_address      |-> request.user_address,
     recipient_address |-> request.recipient_address,
     asset_address     |-> request.erc20_token,
     next_req_id       |-> None,
     start_timestamp   |-> start_timestamp,
     ttl_seconds       |-> ttl_seconds]

(* ttl_seconds of the facilitator's answers: shorter than the cap, longer   *)
(* than the cap, giving no representable timestamp, and overflowing         *)
UsableTtlValues == {1800, 86400}
TtlValues == UsableTtlValues \cup {CHRONO_MAX_SECS, I64_MAX}

(* i64::checked_add *)
checked_add(a, b) ==
    IF (b > 0 /\ a > I64_MAX - b) \/ (b < 0 /\ a < (0 - I64_MAX - 1) - b)
    THEN [some |-> FALSE, v |-> 0]
    ELSE [some |-> TRUE, v |-> a + b]

(* Utc.timestamp_opt(ts, 0).single() *)
timestamp_opt(ts) ==
    IF ts >= 0 - CHRONO_MAX_SECS /\ ts <= CHRONO_MAX_SECS
    THEN [some |-> TRUE, v |-> ts]
    ELSE [some |-> FALSE, v |-> 0]

Min(a, b) == IF a <= b THEN a ELSE b

(* variant: the one-hour cap is applied only when the facilitator's TTL is  *)
(* unusable                                                                 *)
ComputeExpiry_NoCap(resp, now) ==
    LET sum == checked_add(resp.start_timestamp, resp.ttl_seconds)
        ttl_expiry == IF sum.some THEN timestamp_opt(sum.v) ELSE sum
    IN  IF ttl_expiry.some THEN ttl_expiry.v ELSE now + CACHE_CAP_SECS

(* expires_at of a new cache entry *)
ComputeExpiry(resp, now) ==
    LET sum == checked_add(resp.start_timestamp, resp.ttl_seconds)
        ttl_expiry == IF sum.some THEN timestamp_opt(sum.v) ELSE sum
        max_cache_window == now + CACHE_CAP_SECS
    IN  IF ttl_expiry.some THEN Min(ttl_expiry.v, max_cache_window)
        ELSE max_cache_window

(* variant: entries never expire *)
CacheLive_Always(cached, now) == cached.expires_at > now \/ cached.expires_at <= now

(* variant: an entry whose expiry equals the clock reading is still served *)
CacheLive_OrEqual(cached, now) == cached.expires_at >= now

(* the freshness test of the cache lookup *)
CacheLive(cached, now) == cached.expires_at > now

(* HashMap::get followed by the freshness test *)
CacheLookup(cache, key, now) ==
    IF key \in DOMAIN cache /\ CacheLive(cache[key], now)
    THEN [hit |-> TRUE, tab |-> cache[key].tab]
    ELSE [hit |-> FALSE, tab |-> NoTab]

(* variant: an entry already present is kept (entry().or_insert()) *)
CacheInsert_KeepFirst(cache, key, entry) ==
    [k \in DOMAIN cache \cup {key} |-> IF k \in DOMAIN cache THEN cache[k] ELSE entry]

(* HashMap::insert: the entry of `key` is set, replacing any other *)
CacheInsert(cache, key, entry) ==
    [k \in DOMAIN cache \cup {key} |-> IF k = key THEN entry ELSE cache[k]]

CachedTab(tab, expires_at) == [tab |-> tab, expires_at |-> expires_at]

TabLocals0 ==
    [request    |-> [user_address |-> "", recipient_address |-> "", erc20_token |-> "",
                     ttl_seconds |-> 0],
     now        |-> 0,
     response   |-> NoTab,
     expires_at |-> 0,
     result     |-> [t |-> "none"]]


(* What one POST /tabs exchange produced *)
TabBody(tab) == [t |-> "tab", tab |-> tab, text |-> "{tab response}"]

TabAnswers(tab_id, request, now, ttls) ==
    {HttpRaw(FALSE, 0, FALSE, GarbageBody),
     HttpRaw(TRUE, 200, TRUE, GarbageBody),
     HttpRaw(TRUE, 500, TRUE, GarbageBody)}
        \cup {HttpRaw(TRUE, 200, TRUE, TabBody(TabResponse(tab_id, request, start, ttl))) :
                start \in {now}, ttl \in ttls}

(* request_tab is called: the key is built and the clock is read *)
RequestTab(p) ==
    /\ tpc[p] = "idle"
    /\ \A q \in Calls : q < p => tpc[q] # "idle"
    /\ tpc' = [tpc EXCEPT ![p] = "read_wait"]
    /\ \E request \in TabRequests :
       /\ p = 1 => request = FirstTabRequest
       /\ tl' = [tl EXCEPT ![p] = [TabLocals0 EXCEPT !.request = request, !.now = clock]]
    /\ UNCHANGED <<clock, tab_cache, lock, posts, hist, issued_at, payVars>>

(* self.tab_cache.read() is granted *)
AcquireRead(p) ==
    /\ tpc[p] = "read_wait"
    /\ lock.writer = 0
    /\ lock' = [lock EXCEPT !.readers = @ \cup {p}]
    /\ tpc' = [tpc EXCEPT ![p] = "reading"]
    /\ UNCHANGED <<clock, tab_cache, tl, posts, hist, issued_at, payVars>>

(* variant: on a miss the read guard is kept while POST /tabs is awaited *)
Lookup_HoldsGuard(p) ==
    /\ tpc[p] = "reading"
    /\ LET found == CacheLookup(tab_cache, TabKey(tl[p].request), tl[p].now)
       IN  IF found.hit
           THEN /\ tl' = [tl EXCEPT ![p].result = [t |-> "ok", tab |-> found.tab]]
                /\ tpc' = [tpc EXCEPT ![p] = "done"]
                /\ lock' = [lock EXCEPT !.readers = @ \ {p}]
                /\ UNCHANGED posts
           ELSE /\ posts' = posts \cup {p}
                /\ UNCHANGED <<tl, lock>>
                /\ tpc' = [tpc EXCEPT ![p] = "posting"]
    /\ UNCHANGED <<clock, tab_cache, hist, issued_at, payVars>>

(* the lookup under the read lock; the guard is dropped, and on a miss the  *)
(* POST /tabs request is sent                                               *)
Lookup(p) ==
    /\ tpc[p] = "reading"
    /\ lock' = [lock EXCEPT !.readers = @ \ {p}]
    /\ LET found == CacheLookup(tab_cache, TabKey(tl[p].request), tl[p].now)
       IN  IF found.hit
           THEN /\ tl' = [tl EXCEPT ![p].result = [t |-> "ok", tab |-> found.tab]]
                /\ tpc' = [tpc EXCEPT ![p] = "done"]
                /\ UNCHANGED posts
           ELSE /\ posts' = posts \cup {p}
                /\ UNCHANGED tl
                /\ tpc' = [tpc EXCEPT ![p] = "posting"]
    /\ UNCHANGED <<clock, tab_cache, hist, issued_at, payVars>>

(* variant: a failed POST /tabs evicts the entry of the key *)
PostTabs_Evicts(p, ttls) ==
    /\ tpc[p] = "posting"
    /\ \E raw \in TabAnswers(DecStr(p), tl[p].request, clock, ttls) :
       LET r == post_json("POST /tabs", "tab", raw)
       IN  IF ~r.ok
           THEN /\ tl' = [tl EXCEPT ![p].result = [t |-> "err", err |-> r.err]]
                /\ tpc' = [tpc EXCEPT ![p] = "done"]
                /\ tab_cache' = [k \in DOMAIN tab_cache \ {TabKey(tl[p].request)} |-> tab_cache[k]]
           ELSE /\ tl' = [tl EXCEPT ![p].response = r.value.tab,
                                    ![p].expires_at = ComputeExpiry(r.value.tab, tl[p].now)]
                /\ tpc' = [tpc EXCEPT ![p] = "write_wait"]
                /\ UNCHANGED tab_cache
    /\ UNCHANGED <<clock, lock, posts, hist, issued_at, payVars>>

(* post_json(&self.tab_url, "POST /tabs").await returns; on success the     *)
(* expiry is computed and the call goes for the write lock                  *)
PostTabs(p, ttls) ==
    /\ tpc[p] = "posting"
    /\ \E raw \in TabAnswers(DecStr(p), tl[p].request, clock, ttls) :
       LET r == post_json("POST /tabs", "tab", raw)
       IN  IF ~r.ok
           THEN /\ tl' = [tl EXCEPT ![p].result = [t |-> "err", err |-> r.err]]
                /\ tpc' = [tpc EXCEPT ![p] = "done"]
           ELSE /\ tl' = [tl EXCEPT ![p].response = r.value.tab,
                                    ![p].expires_at = ComputeExpiry(r.value.tab, tl[p].now)]
                /\ tpc' = [tpc EXCEPT ![p] = "write_wait"]
    /\ UNCHANGED <<clock, tab_cache, lock, posts, hist, issued_at, payVars>>

PostTabsReturns(p) == PostTabs(p, TtlValues)

(* the same, the facilitator's TTLs being those that give a timestamp *)
PostTabsReturnsUsable(p) == PostTabs(p, UsableTtlValues)

(* self.tab_cache.write() is granted *)
AcquireWrite(p) ==
    /\ tpc[p] = "write_wait"
    /\ lock.writer = 0
    /\ lock.readers = {}
    /\ lock' = [lock EXCEPT !.writer = p]
    /\ tpc' = [tpc EXCEPT ![p] = "writing"]
    /\ hist' = [hist EXCEPT ![TabKey(tl[p].request)] =
                    [some |-> TRUE, tab |-> tl[p].response, expires_at |-> tl[p].expires_at]]
    /\ UNCHANGED <<clock, tab_cache, tl, posts, issued_at, payVars>>

(* cache.insert under the write lock; the guard is dropped and the          *)
(* response is the call's result                                            *)
Insert(p) ==
    /\ tpc[p] = "writing"
    /\ tab_cache' = CacheInsert(tab_cache, TabKey(tl[p].request),
                                CachedTab(tl[p].response, tl[p].expires_at))
    /\ issued_at' = [issued_at EXCEPT ![TabKey(tl[p].request)] = tl[p].now]
    /\ lock' = [lock EXCEPT !.writer = 0]
    /\ tl' = [tl EXCEPT ![p].result = [t |-> "ok", tab |-> tl[p].response]]
    /\ tpc' = [tpc EXCEPT ![p] = "done"]
    /\ UNCHANGED <<clock, posts, hist, payVars>>

(* request_tab has returned to its caller *)
TabReturn(p) ==
    /\ tpc[p] = "done"
    /\ tpc' = [tpc EXCEPT ![p] = "returned"]
    /\ tl' = [tl EXCEPT ![p] = TabLocals0]
    /\ UNCHANGED <<clock, tab_cache, lock, posts, hist, issued_at, payVars>>

(* time passes *)
Tick ==
    /\ \E steps \in {1, 2} :
        /\ clock + steps * TickStep <= ClockStart + MaxTicks * TickStep
        /\ clock' = clock + steps * TickStep
    /\ UNCHANGED <<tab_cache, lock, tpc, tl, posts, hist, issued_at, payVars>>

----------------------------------------------------------------------------
(* Specifications                                                           *)

DefaultConfig ==
    [enabled |-> TRUE, scheme_4mica |-> "4mica-credit", network |-> "polygon-amoy",
     pay_to |-> PayToAddr, asset |-> UsdcAsset]

InitPay ==
    /\ pc = "idle"
    /\ rq = Locals0
    /\ calls = << >>
    /\ streamed = FALSE
    /\ response = NoResponse
    /\ ledger = NoAttempt

InitTab ==
    /\ clock = ClockStart
    /\ tab_cache = << >>
    /\ lock = [readers |-> {}, writer |-> 0]
    /\ tpc = [p \in Calls |-> "idle"]
    /\ tl = [p \in Calls |-> TabLocals0]
    /\ posts = {}
    /\ hist = [k \in TabKeys |-> [some |-> FALSE]]
    /\ issued_at = [k \in TabKeys |-> 0]

(* The server serving stream requests, under every configuration *)
Init ==
    /\ config \in X402Config
    /\ InitPay
    /\ InitTab

Next ==
    \/ handle_stream
    \/ handle_remote_stream
    \/ FacilitatorSettleReturns
    \/ TabSnapshotReturns
    \/ RpcReceiptReturns
    \/ RpcTransactionReturns
    \/ StreamReturns
    \/ Respond

Spec == Init /\ [][Next]_vars

(* The tab cache under concurrent request_tab calls *)
InitTabs ==
    /\ config = DefaultConfig
    /\ InitPay
    /\ InitTab

TabStep(p) ==
    \/ AcquireRead(p)
    \/ Lookup(p)
    \/ AcquireWrite(p)
    \/ Insert(p)
    \/ TabReturn(p)

NextTab ==
    \/ \E p \in Calls : RequestTab(p)
    \/ \E p \in Calls : TabStep(p)
    \/ \E p \in Calls : PostTabsReturnsUsable(p)
    \/ Tick

SpecTab == InitTabs /\ [][NextTab]_vars

(* The tab cache when request_tab calls do not overlap *)
RequestTabAlone(p) ==
    /\ \A q \in Calls : tpc[q] \in {"idle", "returned"}
    /\ RequestTab(p)

NextTabSeq ==
    \/ \E p \in Calls : RequestTabAlone(p)
    \/ \E p \in Calls : TabStep(p)
    \/ \E p \in Calls : PostTabsReturns(p)
    \/ Tick

SpecTabSeq == InitTabs /\ [][NextTabSeq]_vars


(* The catalog and the matcher on their own: build_accepted_payment_requirements *)
(* for every configuration, price and resource, then                        *)
(* find_matching_payment_requirements for every envelope                    *)
Prices == {0, 100, 255}
Resources == {None, "http://localhost:3000/stream/seg0.ts"}

BuildCatalog ==
    /\ pc = "idle"
    /\ \E price \in Prices, resource \in Resources :
       rq' = [Locals0 EXCEPT !.accepted =
                build_accepted_payment_requirements(config, price, AdvertisedUrl \o "/tab",
                                                    resource)]
    /\ pc' = "built"
    /\ UNCHANGED <<config, calls, streamed, response, ledger, tabVars>>

MatchEnvelope ==
    /\ pc = "built"
    /\ \E envelope \in PaymentEnvelopes(config) :
       LET m == find_matching_payment_requirements(envelope, rq.accepted)
       IN  rq' = [rq EXCEPT !.envelope = envelope,
                            !.selected = IF m.ok THEN m.value ELSE NoRequirement,
                            !.settle_result = IF m.ok THEN ResNone ELSE ResErr(m.err)]
    /\ pc' = "matched"
    /\ UNCHANGED <<config, calls, streamed, response, ledger, tabVars>>

NextCatalog ==
    \/ BuildCatalog
    \/ MatchEnvelope

SpecCatalog == Init /\ [][NextCatalog]_vars


----------------------------------------------------------------------------
(* Properties                                                               *)

(* the request is one the paywall guards *)
Paywalled == rq.handler # "" /\ config.enabled /\ ~rq.is_playlist

(* handle_x402_paywall got as far as reading the payment header *)
HeaderRead == rq.accepted # << >>

HasCall(to) == \E i \in 1..Len(calls) : calls[i].to = to

(* C1: for a non-playlist resource with x402 enabled, the handlers reach    *)
(* the streaming step only if handle_x402_paywall returned Ok, which        *)
(* happens only if a payment header was present and settle_payment returned *)
(* Ok in that request; a missing header, an unreadable header and every     *)
(* settle_payment error are answered with 402 and nothing is streamed.      *)
C1_PaywallSafety ==
    Paywalled =>
        /\ streamed => rq.paywall_result.t = "ok"
        /\ rq.paywall_result.t = "ok" =>
              /\ rq.payment_header.t = "text"
              /\ rq.settle_started
              /\ rq.settle_result = ResOk
        /\ rq.paywall_result.t = "err" => ~streamed /\ pc = "responded"
        /\ (pc = "responded" /\ HeaderRead /\ rq.payment_header.t = "absent") =>
              response.status = 402 /\ ~streamed
        /\ (pc = "responded" /\ HeaderRead /\ rq.payment_header.t = "opaque") =>
              response.status = 402 /\ ~streamed
        /\ rq.settle_result.t = "err" =>
              pc = "responded" /\ response.status = 402 /\ ~streamed

C1_Witness ==
    /\ Paywalled
    /\ streamed
    /\ rq.settle_result = ResOk
    /\ HasCall("facilitator")

(* C5: the matcher fails with NoMatchingRequirements carrying the           *)
(* envelope's own scheme and network both when the envelope's version is    *)
(* not the expected one (even if an entry has its scheme and network) and   *)
(* when no offered entry has its scheme and network.                        *)
Offered(envelope, accepted) ==
    \E i \in 1..Len(accepted) :
        accepted[i].scheme = envelope.scheme /\ accepted[i].network = envelope.network

C5_MatcherFailureUniform ==
    (pc = "matched"
        /\ (rq.envelope.x402_version # X402_VERSION \/ ~Offered(rq.envelope, rq.accepted)))
    => /\ rq.selected = NoRequirement
       /\ rq.settle_result = ResErr([kind    |-> "NoMatchingRequirements",
                                     scheme  |-> rq.envelope.scheme,
                                     network |-> rq.envelope.network])

C5_Witness ==
    /\ pc = "matched"
    /\ rq.envelope.x402_version # X402_VERSION
    /\ Offered(rq.envelope, rq.accepted)
    /\ rq.settle_result.t = "err"

(* C6: the matcher returns either one offered requirement or                *)
(* NoMatchingRequirements, and against a set the catalog built, an envelope *)
(* of the expected version whose scheme and network are those of a          *)
(* generated entry matches an entry with that scheme and network.           *)
C6_MatchingTotality ==
    pc = "matched" =>
        /\ \/ /\ rq.selected # NoRequirement
              /\ \E i \in 1..Len(rq.accepted) : rq.accepted[i] = rq.selected
              /\ rq.settle_result = ResNone
           \/ /\ rq.selected = NoRequirement
              /\ rq.settle_result.t = "err"
              /\ rq.settle_result.err.kind = "NoMatchingRequirements"
        /\ (rq.envelope.x402_version = X402_VERSION /\ Offered(rq.envelope, rq.accepted)) =>
              /\ rq.selected # NoRequirement
              /\ rq.selected.scheme = rq.envelope.scheme
              /\ rq.selected.network = rq.envelope.network

C6_Witness ==
    /\ pc = "matched"
    /\ rq.envelope.scheme = "exact"
    /\ rq.selected # NoRequirement
    /\ rq.selected = rq.accepted[2]

(* C7 as stated: for every configuration no two offered entries have the    *)
(* same (scheme, network) pair.                                             *)
UniquePairs(accepted) ==
    \A i, j \in 1..Len(accepted) :
        (accepted[i].scheme = accepted[j].scheme
            /\ accepted[i].network = accepted[j].network) => i = j

C7_Original == UniquePairs(rq.accepted)

(* C7, amended: for every configuration whose credit-tab scheme identifier  *)
(* is not the literal "exact", no two offered entries have the same         *)
(* (scheme, network) pair.                                                  *)
C7_CatalogUniqueness ==
    config.scheme_4mica # "exact" => UniquePairs(rq.accepted)

C7_Witness ==
    /\ pc = "built"
    /\ config.scheme_4mica # "exact"
    /\ Len(rq.accepted) = 2

(* C8: the catalog has exactly two entries, the first with the configured   *)
(* credit-tab scheme, the second with the scheme "exact", both on the       *)
(* configured network with the same pay_to, asset, max_amount_required and  *)
(* resource; they differ in nothing but scheme and extra, the tab entry's   *)
(* extra carrying tabEndpoint and the exact entry's carrying nothing.       *)
C8_CatalogShape ==
    pc \in {"built", "matched"} =>
        LET a == rq.accepted
        IN  /\ Len(a) = 2
            /\ a[1].scheme = config.scheme_4mica
            /\ a[2].scheme = "exact"
            /\ a[1].network = config.network /\ a[2].network = config.network
            /\ a[1].pay_to = a[2].pay_to
            /\ a[1].asset = a[2].asset
            /\ a[1].max_amount_required = a[2].max_amount_required
            /\ a[1].resource = a[2].resource
            /\ [a[1] EXCEPT !.scheme = "", !.extra = {}] = [a[2] EXCEPT !.scheme = "", !.extra = {}]
            /\ \E kv \in a[1].extra : kv[1] = "tabEndpoint"
            /\ a[2].extra = {}

C8_Witness ==
    /\ pc = "built"
    /\ rq.accepted[1].scheme = "tab-x"
    /\ rq.accepted[2].scheme = "exact"
    /\ rq.accepted[1].max_amount_required = "0xff"


(* C9 as stated: after a successful match, if the envelope's scheme matches *)
(* the configured scheme identifier (config.scheme_4mica) as a              *)
(* case-insensitive substring, settle_payment calls the facilitator's       *)
(* settle with the original header text and the matched requirement, for    *)
(* every configured identifier.                                             *)
C9_CreditTabDispatch ==
    (/\ Paywalled
     /\ rq.settle_started
     /\ rq.selected # NoRequirement
     /\ contains(to_lowercase(rq.envelope.scheme), to_lowercase(config.scheme_4mica)))
    => \E i \in 1..Len(calls) :
          calls[i] = FacilitatorCall("POST /settle", rq.payment_header, rq.selected)

(* C10: when the matched envelope's scheme is "exact" and the matched       *)
(* requirement's asset is the native address, settle_payment runs the       *)
(* on-chain verifier and returns its result, and no request goes to the     *)
(* facilitator during that settlement attempt.                              *)
ExactNative ==
    /\ Paywalled
    /\ rq.settle_started
    /\ rq.selected # NoRequirement
    /\ rq.envelope.scheme = "exact"
    /\ normalize_address(rq.selected.asset) = ZERO_ADDRESS

C10_ExactNativeDispatch ==
    ExactNative =>
        /\ ~HasCall("facilitator")
        /\ ~HasCall("provider")
        /\ IF extract_tx_hash(rq.envelope) = None
           THEN calls = << >> /\ rq.settle_result = ResErr(ErrMissingTxHash)
           ELSE /\ Len(calls) >= 1
                /\ calls[1] = RpcCall("eth_getTransactionReceipt", extract_tx_hash(rq.envelope))
        /\ pc \in {"rpc_receipt", "rpc_tx"} => rq.settle_result = ResNone
        /\ rq.settle_result.t = "err" => rq.settle_result.err.kind \in {"MissingTxHash", "Onchain"}
        /\ rq.settle_result.t = "ok" =>
              /\ Len(calls) = 2
              /\ calls[2] = RpcCall("eth_getTransactionByHash", rq.tx_hash)

C10_Witness ==
    /\ ExactNative
    /\ rq.settle_result = ResOk
    /\ streamed

----------------------------------------------------------------------------
(* Properties of the tab cache                                              *)

KeyOf(p) == TabKey(tl[p].request)

(* C2: when request_tab calls do not overlap, a call for a key whose        *)
(* previous tab's expiry is later than the call's clock reading makes no    *)
(* POST /tabs and returns that tab; a call for a key that has no tab yet,   *)
(* or whose tab's expiry has passed, makes one POST /tabs.                  *)
C2_SequentialReuse ==
    [][\A p \in Calls :
         (tpc[p] = "reading" /\ tpc'[p] # "reading") =>
            LET h == hist[KeyOf(p)]
            IN  /\ (h.some /\ h.expires_at > tl[p].now) =>
                      /\ posts' = posts
                      /\ tpc'[p] = "done"
                      /\ tl'[p].result = [t |-> "ok", tab |-> h.tab]
                /\ (~h.some \/ h.expires_at < tl[p].now) =>
                      /\ p \notin posts
                      /\ posts' = posts \cup {p}
                      /\ tpc'[p] = "posting"]_vars

C2_Witness ==
    \E p \in Calls :
        /\ tpc[p] = "done"
        /\ p \notin posts
        /\ tl[p].result.t = "ok"
        /\ Cardinality(posts) = 1
        /\ hist[KeyOf(p)].some
        /\ tl[p].result.tab = hist[KeyOf(p)].tab
        /\ tl[p].now > issued_at[KeyOf(p)]

(* C3: the expiry stored with a tab is min(start_timestamp + ttl_seconds,   *)
(* issuance_time + 1 hour), issuance_time being the clock read when         *)
(* request_tab started; when the sum overflows or is no representable       *)
(* timestamp it is issuance_time + 1 hour.  No stored expiry is later than  *)
(* issuance_time + 1 hour.                                                  *)
SumUnusable(start, ttl) ==
    \/ ttl > I64_MAX - start
    \/ start + ttl > CHRONO_MAX_SECS

C3_ExpiryComputation ==
    \A k \in DOMAIN tab_cache :
        LET e == tab_cache[k]
            start == e.tab.start_timestamp
            ttl == e.tab.ttl_seconds
            cap == issued_at[k] + CACHE_CAP_SECS
        IN  /\ e.expires_at = IF SumUnusable(start, ttl) THEN cap
                              ELSE IF start + ttl < cap THEN start + ttl ELSE cap
            /\ e.expires_at <= cap

C3_Witness ==
    \E k \in DOMAIN tab_cache :
        /\ tab_cache[k].tab.ttl_seconds = 1800
        /\ tab_cache[k].expires_at = tab_cache[k].tab.start_timestamp + 1800
        /\ tab_cache[k].expires_at < issued_at[k] + CACHE_CAP_SECS

(* C4: overlapping request_tab calls for one key may each call the          *)
(* facilitator; each caller receives its own response, and when no call     *)
(* holds the write lock the cache's entry for the key is the response of    *)
(* the call that took the write lock last.                                  *)
C4_LastWriterWins ==
    /\ \A p \in Calls :
          (tpc[p] = "done" /\ p \in posts /\ tl[p].result.t = "ok") =>
             /\ tl[p].result.tab = tl[p].response
             /\ tl[p].result.tab.tab_id = DecStr(p)
    /\ \A k \in TabKeys :
          (hist[k].some /\ \A p \in Calls : ~(tpc[p] = "writing" /\ KeyOf(p) = k)) =>
             /\ k \in DOMAIN tab_cache
             /\ tab_cache[k] = CachedTab(hist[k].tab, hist[k].expires_at)

C4_Witness ==
    \E p, q \in Calls :
        /\ p # q
        /\ tpc[p] = "done" /\ tpc[q] = "done"
        /\ KeyOf(p) = KeyOf(q)
        /\ p \in posts /\ q \in posts
        /\ tl[p].result.t = "ok" /\ tl[q].result.t = "ok"
        /\ tl[p].result.tab # tl[q].result.tab
        /\ tl[p].now = tl[q].now
        /\ tab_cache[KeyOf(p)].tab = tl[p].result.tab

----------------------------------------------------------------------------
(* Properties of the scheme dispatch and of the two settlement branches     *)

(* settle_payment decoded the header and found a matching requirement *)
Matched == Paywalled /\ rq.settle_started /\ rq.selected # NoRequirement

(* C11 as stated: a decoded and matched envelope whose scheme is neither a  *)
(* credit-tab scheme nor "exact" is rejected with UnsupportedScheme         *)
(* carrying the envelope's scheme, and no request goes to the facilitator,  *)
(* the provider or the JSON-RPC endpoint for it; an offered and presented   *)
(* scheme "x402" is such a scheme.                                          *)
C11_UnsupportedScheme ==
    (/\ Matched
     /\ ~IsCreditTabScheme(to_lowercase(rq.envelope.scheme))
     /\ rq.envelope.scheme # "exact")
    => /\ rq.settle_result = ResErr(ErrUnsupportedScheme(rq.envelope.scheme))
       /\ calls = << >>

(* the facilitator answered POST /settle with 200 and a SettleResponse *)
SettleResponded ==
    /\ Matched
    /\ rq.settle_answer # NoAnswer
    /\ rq.settle_answer.raw.send_ok
    /\ rq.settle_answer.raw.status = 200
    /\ rq.settle_answer.raw.body_ok
    /\ rq.settle_answer.raw.body.t = "settle"

(* C12: when POST /settle returns 200 with success = false, settle_payment  *)
(* returns SettlementFailed carrying the response's error text, or the      *)
(* empty string when error is absent; with success = true it returns Ok,    *)
(* whether or not the response carries a certificate (the result is still   *)
(* pending only while log_tab_snapshot is awaited).                         *)
C12_SettleResponseMapping ==
    SettleResponded =>
        LET body == rq.settle_answer.raw.body
        IN  /\ ~body.success =>
                  /\ body.error = None => rq.settle_result = ResErr(ErrSettlementFailed(""))
                  /\ body.error # None =>
                        rq.settle_result = ResErr(ErrSettlementFailed(body.error))
            /\ body.success =>
                  IF pc = "tab_snapshot" THEN rq.settle_result = ResNone
                  ELSE rq.settle_result = ResOk

C12_Witness ==
    /\ SettleResponded
    /\ ~rq.settle_answer.raw.body.success
    /\ rq.settle_answer.raw.body.error = None
    /\ rq.settle_answer.raw.body.certificate = None
    /\ rq.settle_result = ResErr(ErrSettlementFailed(""))
    /\ response.status = 402

(* the tab id settle_payment reads from the payload's claims parses *)
TabIdParses ==
    /\ extract_tab_id(rq.envelope) # None
    /\ parse_u256_value(extract_tab_id(rq.envelope)).ok

(* C13: once the facilitator has answered success = true, settle_payment    *)
(* returns Ok whatever the tab snapshot step does: with a missing or        *)
(* unparseable tab id the snapshot is skipped, and when it runs, a missing  *)
(* provider client or a failed provider query does not change the result;   *)
(* the result is never an error.                                            *)
C13_SnapshotNonGating ==
    (SettleResponded /\ rq.settle_answer.raw.body.success) =>
        /\ rq.settle_result.t # "err"
        /\ HasCall("provider") <=> TabIdParses
        /\ pc = "tab_snapshot" => TabIdParses /\ rq.snapshot = None
        /\ pc # "tab_snapshot" =>
              /\ rq.settle_result = ResOk
              /\ rq.paywall_result = [t |-> "ok"]
              /\ streamed
              /\ TabIdParses => rq.snapshot \in SnapshotOutcomes
              /\ ~TabIdParses => rq.snapshot = None

C13_Witness ==
    /\ SettleResponded
    /\ rq.settle_answer.raw.body.success
    /\ rq.snapshot = "queries failed"
    /\ rq.settle_result = ResOk
    /\ streamed

(* the number of requests of one kind made while serving the request *)
CountCalls(to, op) ==
    Cardinality({i \in 1..Len(calls) : calls[i].to = to /\ calls[i].op = op})

(* C14: within one settlement attempt POST /settle is requested at most     *)
(* once and each of eth_getTransactionReceipt and eth_getTransactionByHash  *)
(* at most once; when one of these requests fails, that failure is the      *)
(* attempt's result and the failed request is the last one made.            *)
C14_NoRetry ==
    /\ CountCalls("facilitator", "POST /settle") <= 1
    /\ CountCalls("rpc", "eth_getTransactionReceipt") <= 1
    /\ CountCalls("rpc", "eth_getTransactionByHash") <= 1
    /\ (rq.settle_answer # NoAnswer
            /\ ~post_json("POST /settle", "settle", rq.settle_answer.raw).ok) =>
          /\ rq.settle_result =
                ResErr(ErrFacilitator(
                    post_json("POST /settle", "settle", rq.settle_answer.raw).err))
          /\ Len(calls) = 1
          /\ calls[1].to = "facilitator"
          /\ pc = "responded"
    /\ (rq.receipt_answer # NoAnswer
            /\ ~rpc_call("eth_getTransactionReceipt", rq.receipt_answer.raw).ok) =>
          /\ rq.settle_result =
                ResErr(rpc_call("eth_getTransactionReceipt", rq.receipt_answer.raw).err)
          /\ Len(calls) = 1
          /\ calls[1].op = "eth_getTransactionReceipt"
          /\ pc = "responded"
    /\ (rq.tx_answer # NoAnswer
            /\ ~rpc_call("eth_getTransactionByHash", rq.tx_answer.raw).ok) =>
          /\ rq.settle_result =
                ResErr(rpc_call("eth_getTransactionByHash", rq.tx_answer.raw).err)
          /\ Len(calls) = 2
          /\ calls[2].op = "eth_getTransactionByHash"
          /\ pc = "responded"

C14_Witness ==
    /\ Matched
    /\ rq.receipt_answer # NoAnswer
    /\ ~rq.receipt_answer.raw.send_ok
    /\ rq.settle_result = ResErr(ErrOnchain("rpc request failed: connection refused"))
    /\ calls = <<RpcCall("eth_getTransactionReceipt", rq.tx_hash)>>
    /\ pc = "responded"

(* settle_payment took the on-chain branch for a matched envelope *)
OnchainBranch ==
    /\ Matched
    /\ ~IsCreditTabScheme(to_lowercase(rq.envelope.scheme))
    /\ IsOnchainScheme(to_lowercase(rq.envelope.scheme))

(* eth_getTransactionReceipt returned a receipt *)
ReceiptReturned ==
    /\ rq.receipt_answer # NoAnswer
    /\ rpc_call("eth_getTransactionReceipt", rq.receipt_answer.raw).ok

(* C15: the on-chain gates apply in order and the first failing one decides *)
(* the error: a payload with neither txHash nor tx_hash as a string gives   *)
(* MissingTxHash and no RPC request; a receipt without a block number gives *)
(* the not-yet-finalized error even when its status is success; a mined     *)
(* receipt with a non-success status gives the reverted error;              *)
(* eth_getTransactionByHash is requested, and the transfer is accepted,     *)
(* only after these three gates have passed.                                *)
C15_GateOrder ==
    OnchainBranch =>
        /\ (rq.envelope.payload.txHash.t # "string"
                /\ rq.envelope.payload.tx_hash.t # "string") =>
              rq.settle_result = ResErr(ErrMissingTxHash) /\ calls = << >>
        /\ ReceiptReturned =>
              LET receipt == rq.receipt_answer.raw.result
              IN  /\ receipt.block_number = None =>
                        /\ rq.settle_result =
                              ResErr(ErrOnchain("transaction not yet finalized on-chain"))
                        /\ Len(calls) = 1
                  /\ (receipt.block_number # None /\ ~is_success_status(receipt.status)) =>
                        /\ rq.settle_result = ResErr(ErrOnchain("transaction reverted"))
                        /\ Len(calls) = 1
        /\ (CountCalls("rpc", "eth_getTransactionByHash") > 0 \/ rq.settle_result = ResOk) =>
              /\ extract_tx_hash(rq.envelope) # None
              /\ calls[1] = RpcCall("eth_getTransactionReceipt", extract_tx_hash(rq.envelope))
              /\ ReceiptReturned
              /\ rq.receipt_answer.raw.result.block_number # None
              /\ is_success_status(rq.receipt_answer.raw.result.status)
        /\ CountCalls("rpc", "eth_getTransactionByHash") > 0 =>
              /\ Len(calls) = 2
              /\ calls[2] = RpcCall("eth_getTransactionByHash", extract_tx_hash(rq.envelope))

C15_Witness ==
    /\ OnchainBranch
    /\ ReceiptReturned
    /\ rq.receipt_answer.raw.result.block_number = None
    /\ rq.receipt_answer.raw.result.status = "0x1"
    /\ rq.settle_result = ResErr(ErrOnchain("transaction not yet finalized on-chain"))
    /\ Len(calls) = 1

(* eth_getTransactionByHash returned a transaction sent to the payee *)
TxToPayee ==
    /\ OnchainBranch
    /\ rq.tx_answer # NoAnswer
    /\ rpc_call("eth_getTransactionByHash", rq.tx_answer.raw).ok
    /\ rq.tx_answer.raw.result.to # None
    /\ normalize_address(rq.tx_answer.raw.result.to) = normalize_address(rq.selected.pay_to)

(* the transaction's value as text: an absent value counts as 0x0 *)
TxValueText ==
    IF rq.tx_answer.raw.result.value = None THEN "0x0" ELSE rq.tx_answer.raw.result.value

(* C16: for a mined, successful transaction whose recipient is the payee,   *)
(* native-transfer verification rejects with an on-chain error when the     *)
(* transaction value is strictly less than the required amount and accepts  *)
(* when it is equal or greater; with 0x64 required, the value 0x64 settles  *)
(* and the value 0x32 is rejected.                                          *)
C16_NativeAmountBoundary ==
    (TxToPayee /\ parse_u256_value(TxValueText).ok) =>
        LET amount == parse_u256_value(TxValueText).value
            required == parse_u256_value(rq.selected.max_amount_required).value
        IN  /\ rq.selected.max_amount_required = "0x64"
            /\ required = 100
            /\ amount < required =>
                  /\ rq.settle_result =
                        ResErr(ErrOnchain("transaction value " \o DecStr(amount)
                                            \o " below required " \o DecStr(required)))
                  /\ ~streamed
            /\ amount >= required => rq.settle_result = ResOk /\ streamed
            /\ TxValueText = "0x64" => rq.settle_result = ResOk
            /\ TxValueText = "0x32" =>
                  rq.settle_result = ResErr(ErrOnchain("transaction value 50 below required 100"))

C16_Witness ==
    /\ TxToPayee
    /\ TxValueText = "0x64"
    /\ rq.receipt.status = "0x1"
    /\ rq.receipt.block_number # None
    /\ rq.settle_result = ResOk
    /\ streamed

(* settle_onchain reached validate_erc20_transfer: a mined, successful      *)
(* receipt for a requirement whose asset is not the native one              *)
Erc20Checked ==
    /\ OnchainBranch
    /\ normalize_address(rq.selected.asset) # ZERO_ADDRESS
    /\ ReceiptReturned
    /\ receipt_gate(rq.receipt_answer.raw.result) = ResOk
    /\ parse_u256_value(rq.selected.max_amount_required).ok

(* the log satisfies all four conditions of the ERC-20 check *)
SufficientTransfer(log) ==
    /\ Erc20LogMatches(log, normalize_address(rq.selected.asset),
                       normalize_address(rq.selected.pay_to))
    /\ parse_u256_value(log.data).ok
    /\ parse_u256_value(log.data).value
          >= parse_u256_value(rq.selected.max_amount_required).value

(* C17 as stated: verification of a non-native payment succeeds if and only *)
(* if some log of the receipt has the asset as emitting address, the        *)
(* Transfer signature as topic 0, the payee as third topic and data of at   *)
(* least the required amount, wherever that log sits and whatever logs      *)
(* precede it; with no such log it fails with an on-chain error (the claim  *)
(* names the transfer-not-found one; any on-chain error is accepted here).  *)
C17_Erc20OrderIndependent ==
    Erc20Checked =>
        LET logs == rq.receipt_answer.raw.result.logs
            found == \E i \in 1..Len(logs) : SufficientTransfer(logs[i])
        IN  /\ found => rq.settle_result = ResOk
            /\ ~found => rq.settle_result.t = "err" /\ rq.settle_result.err.kind = "Onchain"

(* the FacilitatorClientError settle_payment returned, if it returned one *)
FacilitatorErrorKind ==
    IF rq.settle_result.t = "err" /\ rq.settle_result.err.kind = "Facilitator"
    THEN rq.settle_result.err.inner.kind
    ELSE None

(* C18: post_json gives the deserialized value only for status 200; any     *)
(* other status, other 2xx codes included, gives HttpStatus with the status *)
(* code, the body text and the caller's context label; a transport failure  *)
(* gives Http, a 200 body that does not deserialize gives                   *)
(* JsonDeserialization, an unreadable body of a non-200 response gives      *)
(* ResponseBodyRead, and none of these is reported as another.              *)
C18_PostJsonResponseHandling ==
    (Matched /\ rq.settle_answer # NoAnswer) =>
        LET raw == rq.settle_answer.raw
            deserializes == raw.body_ok /\ raw.body.t = "settle"
        IN  /\ FacilitatorErrorKind = None <=> (raw.send_ok /\ raw.status = 200 /\ deserializes)
            /\ FacilitatorErrorKind = "Http" <=> ~raw.send_ok
            /\ FacilitatorErrorKind = "JsonDeserialization"
                  <=> (raw.send_ok /\ raw.status = 200 /\ ~deserializes)
            /\ FacilitatorErrorKind = "ResponseBodyRead"
                  <=> (raw.send_ok /\ raw.status # 200 /\ ~raw.body_ok)
            /\ FacilitatorErrorKind = "HttpStatus"
                  <=> (raw.send_ok /\ raw.status # 200 /\ raw.body_ok)
            /\ FacilitatorErrorKind = "HttpStatus" =>
                  rq.settle_result.err.inner =
                      [kind |-> "HttpStatus", context |-> "POST /settle",
                       status |-> raw.status, body |-> raw.body.text]
            /\ FacilitatorErrorKind # None => rq.settle_result.err.inner.context = "POST /settle"

C18_Witness ==
    /\ Matched
    /\ rq.settle_answer # NoAnswer
    /\ rq.settle_answer.raw.status = 201
    /\ rq.settle_answer.raw.body = SettleBody(TRUE, None, None)
    /\ FacilitatorErrorKind = "HttpStatus"
    /\ rq.settle_result.err.inner.status = 201
    /\ response.status = 402

(* settle_payment was called with a header text *)
SettleCalled == Paywalled /\ rq.settle_started /\ rq.payment_header.t = "text"

(* C19: a header that is not valid standard base64 makes settle_payment     *)
(* fail with Base64Decode, a header whose decoded bytes are not a valid     *)
(* envelope makes it fail with JsonParse, neither kind is reported for the  *)
(* other case, and in both cases no requirement is matched and no request   *)
(* goes to the facilitator, the provider or the JSON-RPC endpoint.          *)
C19_DecodeFailures ==
    SettleCalled =>
        LET h == rq.payment_header
            kind == IF rq.settle_result.t = "err" THEN rq.settle_result.err.kind ELSE None
        IN  /\ kind = "Base64Decode" <=> ~h.b64ok
            /\ kind = "JsonParse" <=> (h.b64ok /\ h.parsed.t # "envelope")
            /\ ~h.b64ok => rq.settle_result = ResErr(ErrBase64Decode)
            /\ (h.b64ok /\ h.parsed.t # "envelope") => rq.settle_result = ResErr(ErrJsonParse)
            /\ (~h.b64ok \/ h.parsed.t # "envelope") =>
                  /\ rq.envelope = NoEnvelope
                  /\ rq.selected = NoRequirement
                  /\ calls = << >>
                  /\ pc = "responded"
                  /\ response.status = 402
                  /\ ~streamed

C19_Witness ==
    /\ SettleCalled
    /\ rq.payment_header.b64ok
    /\ rq.payment_header.parsed.t # "envelope"
    /\ rq.settle_result = ResErr(ErrJsonParse)
    /\ calls = << >>
    /\ response.status = 402

(* The server when every outbound call it awaits returns, with the paywall  *)
(* enabled, under a credit scheme the dispatch knows and one it does not    *)
InitFair ==
    /\ config \in {c \in X402Config : c.enabled /\ c.scheme_4mica \in {"4mica-credit", "tab-x"}}
    /\ InitPay
    /\ InitTab

SpecFair ==
    /\ InitFair
    /\ [][Next]_vars
    /\ WF_vars(FacilitatorSettleReturns)
    /\ WF_vars(TabSnapshotReturns)
    /\ WF_vars(RpcReceiptReturns)
    /\ WF_vars(RpcTransactionReturns)

(* settle_payment is suspended on an outbound call *)
Settling == pc \in {"facilitator_settle", "tab_snapshot", "rpc_receipt", "rpc_tx"}

(* requests are made only for a matched requirement, a requirement is       *)
(* matched only for a decoded envelope, and settle_payment is suspended     *)
(* only in one of the two branches, without a result                        *)
SettlementOrder ==
    /\ calls # << >> => rq.selected # NoRequirement
    /\ rq.selected # NoRequirement =>
          /\ rq.envelope # NoEnvelope
          /\ decode_payment_header(rq.payment_header).ok
          /\ rq.envelope = decode_payment_header(rq.payment_header).value
          /\ RequirementMatches(rq.envelope, rq.selected)
    /\ Settling =>
          /\ rq.settle_started
          /\ rq.selected # NoRequirement
          /\ rq.settle_result = ResNone
          /\ calls # << >>
    /\ pc \in {"facilitator_settle", "tab_snapshot"} => calls[1].to = "facilitator"
    /\ pc \in {"rpc_receipt", "rpc_tx"} => \A i \in 1..Len(calls) : calls[i].to = "rpc"
    /\ (rq.settle_started /\ ~Settling) => rq.settle_result.t \in {"ok", "err"}
    /\ rq.settle_result = ResOk <=> (rq.settle_started /\ streamed)

(* once settle_payment has returned, its result stands and no request is    *)
(* made until the response has been sent                                    *)
SettlementFinal ==
    (rq.settle_result # ResNone /\ pc' # "idle") =>
        /\ rq'.settle_result = rq.settle_result
        /\ calls' = calls
        /\ rq'.selected = rq.selected

(* C20: a settlement attempt goes from decoding to matching to one of the   *)
(* two settling branches to Settled or Rejected: a request to the           *)
(* facilitator or the JSON-RPC endpoint is made only after a requirement    *)
(* has been matched, matching happens only after a successful decode, and,  *)
(* when every outbound call returns, each attempt reaches one terminal      *)
(* outcome, after which its result does not change and no request is made.  *)
C20_SettlementStateOrder ==
    /\ []SettlementOrder
    /\ [][SettlementFinal]_vars
    /\ (rq.settle_started ~> rq.settle_result # ResNone)

C20_Witness ==
    /\ Matched
    /\ rq.settle_result = ResOk
    /\ Len(calls) = 2
    /\ calls[1].to = "facilitator"
    /\ calls[2].to = "provider"
    /\ pc = "responded"
    /\ response.status = 200

----------------------------------------------------------------------------
(* Properties of the 402 answer                                             *)

(* the kind of failure a PaymentError stands for: the facilitator or the    *)
(* JSON-RPC endpoint could not be used, or the proof was not good           *)
ErrorClass(e) ==
    IF e.kind = "Facilitator" \/ (e.kind = "Onchain" /\ starts_with(e.detail, "rpc "))
    THEN "infrastructure failure"
    ELSE "invalid proof"

(* the kind of failure a client reads from the error field of a 402 *)
TextClass(text) ==
    IF text = None THEN "no proof offered"
    ELSE IF \/ starts_with(text, "Payment settlement failed: Facilitator error: ")
            \/ starts_with(text, "Payment settlement failed: On-chain settlement failed: rpc ")
    THEN "infrastructure failure"
    ELSE "invalid proof"

(* C21: every 402 of handle_x402_paywall carries the full offered           *)
(* requirement set; its error field is absent exactly when no payment       *)
(* header was sent; when a header was sent the error text tells the kind of *)
(* failure, so that an invalid proof and an infrastructure failure never    *)
(* give the same text.                                                      *)
C21_RejectionsDistinguishable ==
    (Paywalled /\ response.status = 402) =>
        /\ response.accepts = rq.accepted
        /\ Len(response.accepts) = 2
        /\ response.accepts[1].scheme = config.scheme_4mica
        /\ response.accepts[2].scheme = "exact"
        /\ response.error = None <=> rq.payment_header.t = "absent"
        /\ rq.payment_header.t = "opaque" => response.error = "Invalid payment header"
        /\ rq.payment_header.t = "text" =>
              /\ rq.settle_result.t = "err"
              /\ response.error =
                    "Payment settlement failed: " \o PaymentErrorText(rq.settle_result.err)
              /\ TextClass(response.error) = ErrorClass(rq.settle_result.err)
        /\ TextClass(response.error) = "no proof offered" <=> rq.payment_header.t = "absent"

C21_Witness ==
    /\ Paywalled
    /\ response.status = 402
    /\ rq.settle_answer # NoAnswer
    /\ ~rq.settle_answer.raw.send_ok
    /\ response.error =
          "Payment settlement failed: Facilitator error: HTTP error: POST /settle: error sending request"
    /\ response.accepts = rq.accepted

----------------------------------------------------------------------------
(* Properties of the lock around the tab cache                              *)

(* no call holds the lock in a mode that excludes a reader / a writer *)
NoWriter == \A q \in Calls : tpc[q] # "writing"
NoHolder == \A q \in Calls : tpc[q] \notin {"reading", "writing"}

(* C22: a request_tab call that is waiting on POST /tabs holds neither the  *)
(* read lock nor the write lock; the read lock is held only during the      *)
(* lookup and the write lock only during the insert, so calls waiting on    *)
(* the facilitator never keep another call from its lookup or its insert.   *)
C22_NoLockAcrossIssuer ==
    /\ \A p \in Calls :
          /\ tpc[p] = "posting" => p \notin lock.readers /\ lock.writer # p
          /\ p \in lock.readers <=> tpc[p] = "reading"
          /\ lock.writer = p <=> tpc[p] = "writing"
          /\ (tpc[p] = "read_wait" /\ NoWriter) => ENABLED AcquireRead(p)
          /\ (tpc[p] = "write_wait" /\ NoHolder) => ENABLED AcquireWrite(p)
    /\ lock.writer # 0 => lock.readers = {}

C22_Witness ==
    /\ tpc[1] = "posting"
    /\ tpc[2] = "read_wait"
    /\ lock.readers = {}
    /\ lock.writer = 0
    /\ ENABLED AcquireRead(2)

(* C23 as stated: access to the tab cache is exclusive per entry and        *)
(* concurrent across keys: a call that is inserting the entry of one key    *)
(* does not keep a call for a different key from its lookup or its insert,  *)
(* and a call looking up one key does not keep a call for a different key   *)
(* from its insert.                                                         *)
C23_PerKeyLocking ==
    \A p \in Calls : \A q \in Calls \ {p} :
        (/\ tpc[p] \in {"reading", "writing"}
         /\ tpc[q] \in {"read_wait", "write_wait"}
         /\ KeyOf(p) # KeyOf(q)) =>
            /\ tpc[q] = "read_wait" => ENABLED AcquireRead(q)
            /\ (tpc[q] = "write_wait" /\ \A r \in Calls \ {p} : tpc[r] # "reading")
                  => ENABLED AcquireWrite(q)

----------------------------------------------------------------------------
(* Properties of cache freshness and of failed issuance                     *)

(* C24: request_tab returns a tab from the cache only if the entry's stored *)
(* expiry is strictly later than the clock read when the call started; an   *)
(* entry whose expiry is equal to or earlier than that instant is treated   *)
(* as absent and POST /tabs is sent; on success the entry of the key is     *)
(* replaced by the new tab, every other entry staying as it was.            *)
C24_ExpiredNeverServed ==
    [][\A p \in Calls :
         /\ (tpc[p] = "reading" /\ tpc'[p] # "reading") =>
               LET k == KeyOf(p)
                   stale == k \in DOMAIN tab_cache /\ tab_cache[k].expires_at <= tl[p].now
               IN  /\ tpc'[p] = "done" =>
                         /\ k \in DOMAIN tab_cache
                         /\ tab_cache[k].expires_at > tl[p].now
                         /\ tl'[p].result = [t |-> "ok", tab |-> tab_cache[k].tab]
                         /\ posts' = posts
                   /\ (stale \/ k \notin DOMAIN tab_cache) =>
                         /\ tpc'[p] = "posting"
                         /\ posts' = posts \cup {p}
                         /\ tab_cache' = tab_cache
         /\ (tpc[p] = "writing" /\ tpc'[p] # "writing") =>
               LET k == KeyOf(p)
               IN  /\ DOMAIN tab_cache' = DOMAIN tab_cache \cup {k}
                   /\ tab_cache'[k] = CachedTab(tl[p].response, tl[p].expires_at)
                   /\ tab_cache'[k].tab.tab_id = DecStr(p)
                   /\ \A j \in DOMAIN tab_cache \ {k} : tab_cache'[j] = tab_cache[j]
                   /\ tl'[p].result = [t |-> "ok", tab |-> tl[p].response]]_vars

C24_Witness ==
    /\ tpc[1] = "returned"
    /\ tpc[2] = "writing"
    /\ 2 \in posts
    /\ KeyOf(2) \in DOMAIN tab_cache
    /\ tab_cache[KeyOf(2)].tab.tab_id = "1"
    /\ tab_cache[KeyOf(2)].expires_at = tl[2].now

----------------------------------------------------------------------------
(* Properties of the on-chain verifier's helpers                            *)

(* eth_getTransactionReceipt returned a receipt that has a block number *)
MinedReceipt ==
    /\ OnchainBranch
    /\ ReceiptReturned
    /\ rq.receipt_answer.raw.result.block_number # None

Reverted == rq.settle_result = ResErr(ErrOnchain("transaction reverted"))

(* C25: a mined receipt passes the status gate only if its status is        *)
(* present and parses, as 0x-prefixed hex or as decimal, to an integer      *)
(* greater than zero; a status 0x0, a missing status and a status that does *)
(* not parse are rejected as a reverted transaction.                        *)
C25_ReceiptStatusGate ==
    MinedReceipt =>
        LET status == rq.receipt_answer.raw.result.status
            parsed == parse_u256_value(status)
        IN  /\ ~Reverted <=> (status # None /\ parsed.ok /\ parsed.value > 0)
            /\ status = None => Reverted
            /\ status \in {"0x0", "0"} => Reverted
            /\ (status # None /\ ~parsed.ok) => Reverted
            /\ status \in {"0x1", "1", "0x2"} => ~Reverted
            /\ Reverted => Len(calls) = 1 /\ ~streamed

C25_Witness ==
    /\ MinedReceipt
    /\ rq.receipt_answer.raw.result.status = "zz"
    /\ Reverted
    /\ response.status = 402

(* the 20-byte address a spelling denotes: one prefix 0x or 0X, if any, is  *)
(* dropped and the hex digits are read without case                         *)
AddressOf(s) ==
    IF starts_with(s, "0x") \/ starts_with(s, "0X")
    THEN to_lowercase(SubSeq(s, 3, Len(s)))
    ELSE to_lowercase(s)

(* eth_getTransactionByHash returned a transaction that names a recipient *)
TxWithRecipient ==
    /\ OnchainBranch
    /\ rq.tx_answer # NoAnswer
    /\ rpc_call("eth_getTransactionByHash", rq.tx_answer.raw).ok
    /\ rq.tx_answer.raw.result.to # None

RecipientMismatch ==
    /\ rq.settle_result.t = "err"
    /\ rq.settle_result.err.kind = "Onchain"
    /\ starts_with(rq.settle_result.err.detail, "transaction recipient mismatch")

(* C26 as stated: the recipient gate of native-transfer verification passes *)
(* exactly when the transaction's recipient and the requirement's payee     *)
(* denote the same address, whatever the case of the hex digits and         *)
(* whichever of no prefix, 0x and 0X either side is spelled with; and       *)
(* normalize_address is idempotent.                                         *)
C26_RecipientSpellings ==
    TxWithRecipient =>
        LET to == rq.tx_answer.raw.result.to
        IN  /\ ~RecipientMismatch <=> AddressOf(to) = AddressOf(rq.selected.pay_to)
            /\ normalize_address(normalize_address(to)) = normalize_address(to)

(* what settle_onchain returns for the answer `raw` to `method`, as far as  *)
(* the JSON-RPC helper decides it; `last` says that no later request was    *)
(* made                                                                     *)
RpcOutcome(method, raw, last) ==
    /\ (raw.send_ok /\ raw.json_ok /\ raw.error.t = "some") =>
          rq.settle_result =
              ResErr(ErrOnchain("rpc error " \o IntStr(raw.error.code) \o ": "
                                  \o raw.error.message))
    /\ (raw.send_ok /\ raw.json_ok /\ raw.error.t = "none" /\ raw.result.t = "none") =>
          rq.settle_result = ResErr(ErrOnchain("rpc " \o method \o " returned no result"))
    /\ (raw.send_ok /\ ~raw.json_ok) =>
          /\ rq.settle_result.t = "err"
          /\ rq.settle_result.err.kind = "Onchain"
          /\ starts_with(rq.settle_result.err.detail, "rpc response parse failed")
    /\ (raw.send_ok /\ raw.json_ok /\ raw.error.t = "none" /\ raw.result.t # "none") =>
          /\ rpc_call(method, raw) = [ok |-> TRUE, value |-> raw.result]
          /\ ~(/\ last
               /\ rq.settle_result.t = "err"
               /\ rq.settle_result.err.kind = "Onchain"
               /\ starts_with(rq.settle_result.err.detail, "rpc "))

(* C27: rpc_call fails with the upstream code and message whenever the      *)
(* response has a non-null error, even next to a result; fails with the     *)
(* "returned no result" error when error is null and result is null or      *)
(* absent; fails with a parse error when the body is no well-formed         *)
(* response; and returns the result only when error is null and result is   *)
(* non-null.  The three errors are different texts.                         *)
C27_RpcCallOutcomes ==
    OnchainBranch =>
        /\ rq.receipt_answer # NoAnswer =>
              /\ RpcOutcome("eth_getTransactionReceipt", rq.receipt_answer.raw,
                            rq.tx_answer = NoAnswer)
              /\ rq.receipt # NoReceipt <=>
                    (/\ rq.receipt_answer.raw.send_ok
                     /\ rq.receipt_answer.raw.json_ok
                     /\ rq.receipt_answer.raw.error.t = "none"
                     /\ rq.receipt_answer.raw.result.t # "none")
              /\ rq.receipt # NoReceipt => rq.receipt = rq.receipt_answer.raw.result
        /\ rq.tx_answer # NoAnswer =>
              RpcOutcome("eth_getTransactionByHash", rq.tx_answer.raw, TRUE)

C27_Witness ==
    /\ OnchainBranch
    /\ rq.receipt_answer # NoAnswer
    /\ rq.receipt_answer.raw.error = RpcError(3, "execution reverted")
    /\ rq.receipt_answer.raw.result.t = "receipt"
    /\ rq.settle_result = ResErr(ErrOnchain("rpc error 3: execution reverted"))
    /\ rq.receipt = NoReceipt

----------------------------------------------------------------------------
(* Properties of the stream handler                                         *)

(* where the requested name leads, and whether that is a file inside the    *)
(* served directory                                                         *)
RequestedPath ==
    LET base == Components("./data/hls", "", << >>)
        name == Components(rq.target, "", << >>)
    IN  Resolve(IF name # << >> /\ name[1] = "/" THEN name ELSE base \o name, << >>)

ServedFile ==
    LET base == Components("./data/hls", "", << >>)
    IN  /\ RequestedPath \in Disk.files
        /\ Len(RequestedPath) >= Len(base)
        /\ SubSeq(RequestedPath, 1, Len(base)) = base

(* C28 as stated: in handle_stream the payment check, and with it every     *)
(* request to the facilitator or the chain, starts only after verify_file   *)
(* has succeeded; a request for a missing file, for a path that is not a    *)
(* file or for a path outside the served directory is answered with an      *)
(* error and no settlement is attempted.                                    *)
C28_VerifyBeforeCharge ==
    rq.handler = "handle_stream" =>
        /\ (HeaderRead \/ rq.settle_started \/ calls # << >> \/ streamed) => rq.file_verified
        /\ ~ServedFile =>
              /\ pc = "responded"
              /\ response.status \in {400, 500}
              /\ ~HeaderRead
              /\ ~rq.settle_started
              /\ calls = << >>
              /\ ~streamed


(* C29: when the POST /tabs exchange of a request_tab call fails (transport *)
(* error, status other than 200, body that is not a tab response), the call *)
(* returns that error and the tab cache is as it was when the call started: *)
(* nothing is inserted, and an expired entry of the key stays as it is.     *)
(* Calls do not overlap, so every change of the cache during a call is the  *)
(* call's own.                                                              *)
C29_FailedIssuanceFrame ==
    [][\A p \in Calls :
         /\ tpc[p] \in {"read_wait", "reading", "posting", "done"} => tab_cache' = tab_cache
         /\ (tpc[p] = "posting" /\ tpc'[p] # "posting") =>
               \/ /\ tpc'[p] = "done"
                  /\ \E raw \in TabAnswers(DecStr(p), tl[p].request, clock, TtlValues) :
                        /\ ~post_json("POST /tabs", "tab", raw).ok
                        /\ tl'[p].result = [t |-> "err", err |-> post_json("POST /tabs", "tab", raw).err]
                  /\ tl'[p].result.err.kind \in {"Http", "HttpStatus", "JsonDeserialization"}
                  /\ tl'[p].result.err.context = "POST /tabs"
                  /\ tl'[p].response = NoTab
               \/ /\ tpc'[p] = "write_wait"
                  /\ tl'[p].response # NoTab
                  /\ tl'[p].result.t = "none"
         /\ (tl'[p].result.t = "err" /\ tl[p].result.t # "err") => tpc[p] = "posting"
         /\ tl[p].result.t = "err" => tpc[p] = "done" /\ tpc'[p] \in {"done", "returned"}
         /\ tpc'[p] = "write_wait" => tpc[p] \in {"posting", "write_wait"}
         /\ tpc'[p] = "writing" => tpc[p] \in {"write_wait", "writing"}
         /\ tab_cache' # tab_cache => tpc[p] \in {"idle", "writing", "returned"}]_vars

(* the second call found the first call's tab expired, and its POST /tabs   *)
(* failed: the expired entry is still in the cache                          *)
C29_Witness ==
    /\ tpc[1] = "returned"
    /\ tpc[2] = "done"
    /\ tl[2].result.t = "err"
    /\ 2 \in posts
    /\ KeyOf(2) \in DOMAIN tab_cache
    /\ tab_cache[KeyOf(2)].tab.tab_id = "1"
    /\ tab_cache[KeyOf(2)].expires_at <= tl[2].now


----------------------------------------------------------------------------
(* Properties of repeated on-chain settlement                               *)

(* settle_payment sent a matched envelope that carries a hash to            *)
(* settle_onchain                                                           *)
OnchainAttempt(lo) ==
    /\ lo.envelope # NoEnvelope
    /\ lo.selected # NoRequirement
    /\ ~IsCreditTabScheme(to_lowercase(lo.envelope.scheme))
    /\ IsOnchainScheme(to_lowercase(lo.envelope.scheme))
    /\ extract_tx_hash(lo.envelope) # None

(* what is remembered of a finished attempt: what was presented, what the   *)
(* chain answered, what settle_onchain returned                             *)
AttemptRecord(lo) ==
    [t              |-> "attempt",
     tx_hash        |-> extract_tx_hash(lo.envelope),
     selected       |-> lo.selected,
     receipt_answer |-> lo.receipt_answer,
     tx_answer      |-> lo.tx_answer,
     outcome        |-> lo.settle_result]

(* the response is sent; the attempt just finished may be the one remembered *)
RespondRecording ==
    /\ pc = "responded"
    /\ pc' = "idle"
    /\ rq' = Locals0
    /\ calls' = << >>
    /\ streamed' = FALSE
    /\ response' = NoResponse
    /\ ledger' \in {ledger} \cup
                     (IF OnchainAttempt(rq) /\ rq.settle_result # ResNone
                      THEN {AttemptRecord(rq)} ELSE {})
    /\ UNCHANGED <<config, tabVars>>

(* the request presents the remembered hash against the remembered requirement *)
Presents ==
    /\ ledger # NoAttempt
    /\ OnchainAttempt(rq)
    /\ extract_tx_hash(rq.envelope) = ledger.tx_hash
    /\ rq.selected = ledger.selected

SameAnswer(a, b) == a = NoAnswer \/ b = NoAnswer \/ a = b

(* the chain answers the request as it answered the remembered attempt *)
ChainUnchanged ==
    ledger # NoAttempt =>
        /\ SameAnswer(rq.receipt_answer, ledger.receipt_answer)
        /\ SameAnswer(rq.tx_answer, ledger.tx_answer)

(* the header maps whose payment header is an envelope of an on-chain       *)
(* scheme that carries the hash 0xdead and no claims, under either header   *)
(* name, in either payload field layout                                     *)
ReplayHeaders(cfg) ==
    {h \in HeaderMaps(cfg) :
        LET p == GetPaymentHeader(h)
        IN  /\ p.t = "text"
            /\ decode_payment_header(p).ok
            /\ IsOnchainScheme(to_lowercase(p.parsed.scheme))
            /\ ~IsCreditTabScheme(to_lowercase(p.parsed.scheme))
            /\ extract_tx_hash(p.parsed) = "0xdead"
            /\ p.parsed.payload.claims = JAbsent}

(* The server when clients present one transaction hash for one resource    *)
(* again and again while the chain does not change                          *)
NextReplay ==
    \/ handle_stream_of({"seg0.ts"}, ReplayHeaders(config))
    \/ RpcReceiptReturns /\ ChainUnchanged'
    \/ RpcTransactionReturns /\ ChainUnchanged'
    \/ StreamReturns
    \/ RespondRecording

InitReplay ==
    /\ config \in {c \in X402Config : c.enabled /\ c.scheme_4mica = "4mica-credit"}
    /\ InitPay
    /\ InitTab

SpecReplay == InitReplay /\ [][NextReplay]_vars

====
